---- MODULE Spec2Model ----
(***************************************************************************)
(* The hybrid intent classifier of classifier.py: whole-word keyword       *)
(* matching, product-name pattern detection, confidence scoring, the       *)
(* decision procedure classify_intent, the memoized LLM fallback           *)
(* _llm_classify and the telemetry log.                                    *)
(*                                                                         *)
(* A text is a sequence of one-character strings, so that word boundaries, *)
(* case folding, stripping and tokenizing are computed character by        *)
(* character as Python's re and str do on ASCII text.                      *)
(***************************************************************************)
EXTENDS Integers, Sequences, FiniteSets, TLC

(***************************************************************************)
(* Characters                                                              *)
(***************************************************************************)
LowerLetters ==
  <<"a","b","c","d","e","f","g","h","i","j","k","l","m",
    "n","o","p","q","r","s","t","u","v","w","x","y","z">>

UpperLetters ==
  <<"A","B","C","D","E","F","G","H","I","J","K","L","M",
    "N","O","P","Q","R","S","T","U","V","W","X","Y","Z">>

LowerSet == {LowerLetters[i] : i \in 1..Len(LowerLetters)}

UpperSet == {UpperLetters[i] : i \in 1..Len(UpperLetters)}

\* [A-Za-z]
IsLetter(c) == c \in LowerSet \/ c \in UpperSet

\* \d
Digits == {"0","1","2","3","4","5","6","7","8","9"}

\* \s, and the characters str.strip() and str.split() treat as blank
Whitespace == {" ", "\t", "\n"}

\* \w
IsWordChar(c) == IsLetter(c) \/ c \in Digits \/ c = "_"

(***************************************************************************)
(* str.lower(), str.strip(), str.split()[0], the "in" substring test       *)
(***************************************************************************)
LowerChar(c) ==
  IF c \in UpperSet
    THEN LowerLetters[CHOOSE i \in 1..Len(UpperLetters) : UpperLetters[i] = c]
    ELSE c

RECURSIVE lower(_)
lower(t) ==
  IF t = <<>> THEN <<>> ELSE <<LowerChar(Head(t))>> \o lower(Tail(t))

\* str.upper(), by which a caller shouts a question
UpperChar(c) ==
  IF c \in LowerSet
    THEN UpperLetters[CHOOSE i \in 1..Len(LowerLetters) : LowerLetters[i] = c]
    ELSE c

RECURSIVE UpperText(_)
UpperText(t) ==
  IF t = <<>> THEN <<>> ELSE <<UpperChar(Head(t))>> \o UpperText(Tail(t))

RECURSIVE lstrip(_)
lstrip(t) ==
  IF t # <<>> /\ Head(t) \in Whitespace THEN lstrip(Tail(t)) ELSE t

RECURSIVE rstrip(_)
rstrip(t) ==
  IF t # <<>> /\ t[Len(t)] \in Whitespace
    THEN rstrip(SubSeq(t, 1, Len(t) - 1))
    ELSE t

strip(t) == rstrip(lstrip(t))

\* t.split(): the maximal runs of non-blank characters, in order
RECURSIVE split(_)
split(t) ==
  LET s == lstrip(t)
      n == IF \E i \in 1..Len(s) : s[i] \in Whitespace
             THEN (CHOOSE i \in 1..Len(s) :
                     /\ s[i] \in Whitespace
                     /\ \A j \in 1..(i - 1) : s[j] \notin Whitespace) - 1
             ELSE Len(s)
  IN  IF s = <<>> THEN <<>>
      ELSE <<SubSeq(s, 1, n)>> \o split(SubSeq(s, n + 1, Len(s)))

\* sub in t
IsSubstring(sub, t) ==
  \E i \in 1..(Len(t) - Len(sub) + 1) :
    (sub = <<>> \/ t[i] = sub[1]) /\ SubSeq(t, i, i + Len(sub) - 1) = sub

(***************************************************************************)
(* Word boundary matcher                                                   *)
(***************************************************************************)
\* The regex assertion \b at the gap before text[i] (i = Len(text)+1 is
\* the end of the text): exactly one side of the gap is a word character.
AtWordBoundary(text, i) ==
  (i > 1 /\ IsWordChar(text[i - 1])) # (i <= Len(text) /\ IsWordChar(text[i]))

\* A matcher that accepts the keyword anywhere in the text
_contains_keyword_Substring(text, keyword) ==
  \E i \in 1..(Len(text) - Len(keyword) + 1) :
    SubSeq(text, i, i + Len(keyword) - 1) = keyword

\* re.search(r"\b" + re.escape(keyword) + r"\b", text)
_contains_keyword(text, keyword) ==
  \E i \in 1..(Len(text) - Len(keyword) + 1) :
    /\ text[i] = keyword[1]
    /\ SubSeq(text, i, i + Len(keyword) - 1) = keyword
    /\ AtWordBoundary(text, i)
    /\ AtWordBoundary(text, i + Len(keyword))

(***************************************************************************)
(* Keyword lists                                                           *)
(***************************************************************************)
DEFINITE_SQL ==
  <<
    <<"h","o","w"," ","m","a","n","y">>,
    <<"c","o","u","n","t">>,
    <<"n","u","m","b","e","r"," ","o","f">>,
    <<"t","o","t","a","l"," ","n","u","m","b","e","r">>,
    <<"h","o","w"," ","m","a","n","y"," ","p","r","o","d","u","c","t","s"," ","i","n"," ","s","t","o","c","k">>,
    <<"h","o","w"," ","m","a","n","y"," ","a","v","a","i","l","a","b","l","e">>,
    <<"a","v","e","r","a","g","e">>,
    <<"a","v","g">>,
    <<"m","e","a","n">>,
    <<"s","u","m">>,
    <<"t","o","t","a","l">>,
    <<"a","v","e","r","a","g","e"," ","p","r","i","c","e">>,
    <<"a","v","g"," ","p","r","i","c","e">>,
    <<"a","v","e","r","a","g","e"," ","r","a","t","i","n","g">>,
    <<"a","v","g"," ","r","a","t","i","n","g">>,
    <<"a","v","e","r","a","g","e"," ","d","i","s","c","o","u","n","t">>,
    <<"a","v","g"," ","d","i","s","c","o","u","n","t">>,
    <<"a","v","e","r","a","g","e"," ","d","e","l","i","v","e","r","y">>,
    <<"a","v","g"," ","d","e","l","i","v","e","r","y">>,
    <<"a","v","e","r","a","g","e"," ","s","c","o","r","e">>,
    <<"a","v","g"," ","s","c","o","r","e">>,
    <<"t","o","t","a","l"," ","s","t","o","c","k">>,
    <<"t","o","t","a","l"," ","i","n","v","e","n","t","o","r","y">>,
    <<"s","t","o","c","k"," ","a","v","a","i","l","a","b","l","e">>,
    <<"t","o","t","a","l"," ","s","a","l","e","s">>,
    <<"t","o","t","a","l"," ","u","n","i","t","s">>,
    <<"u","n","i","t","s"," ","s","o","l","d">>,
    <<"t","o","t","a","l"," ","r","e","v","e","n","u","e">>,
    <<"r","e","v","e","n","u","e">>,
    <<"t","o","t","a","l"," ","r","e","v","i","e","w","s">>,
    <<"r","e","v","i","e","w"," ","c","o","u","n","t">>,
    <<"m","o","s","t"," ","e","x","p","e","n","s","i","v","e">>,
    <<"h","i","g","h","e","s","t"," ","p","r","i","c","e">>,
    <<"c","o","s","t","l","i","e","s","t">>,
    <<"c","h","e","a","p","e","s","t">>,
    <<"l","o","w","e","s","t"," ","p","r","i","c","e">>,
    <<"l","e","a","s","t"," ","e","x","p","e","n","s","i","v","e">>,
    <<"b","e","s","t"," ","r","a","t","e","d">>,
    <<"h","i","g","h","e","s","t"," ","r","a","t","e","d">>,
    <<"t","o","p"," ","r","a","t","e","d">>,
    <<"w","o","r","s","t"," ","r","a","t","e","d">>,
    <<"l","o","w","e","s","t"," ","r","a","t","e","d">>,
    <<"b","e","s","t"," ","s","e","l","l","i","n","g">>,
    <<"m","o","s","t"," ","s","o","l","d">>,
    <<"t","o","p"," ","s","e","l","l","i","n","g">>,
    <<"p","o","p","u","l","a","r">>,
    <<"h","i","g","h","e","s","t"," ","d","i","s","c","o","u","n","t">>,
    <<"m","o","s","t"," ","d","i","s","c","o","u","n","t">>,
    <<"b","e","s","t"," ","d","e","a","l">>,
    <<"b","i","g","g","e","s","t"," ","d","i","s","c","o","u","n","t">>,
    <<"f","a","s","t","e","s","t"," ","d","e","l","i","v","e","r","y">>,
    <<"q","u","i","c","k","e","s","t"," ","d","e","l","i","v","e","r","y">>,
    <<"h","i","g","h","e","s","t"," ","s","c","o","r","e">>,
    <<"b","e","s","t"," ","s","c","o","r","e">>,
    <<"h","i","g","h","e","s","t"," ","s","e","l","l","e","r"," ","r","a","t","i","n","g">>,
    <<"b","e","s","t"," ","s","e","l","l","e","r">>,
    <<"m","o","s","t"," ","r","e","v","i","e","w","e","d">>,
    <<"m","o","s","t"," ","r","e","v","i","e","w","s">>,
    <<"l","o","n","g","e","s","t"," ","w","a","r","r","a","n","t","y">>,
    <<"b","e","s","t"," ","w","a","r","r","a","n","t","y">>,
    <<"l","i","g","h","t","e","s","t">>,
    <<"h","e","a","v","i","e","s","t">>,
    <<"u","n","d","e","r">>,
    <<"b","e","l","o","w">>,
    <<"l","e","s","s"," ","t","h","a","n">>,
    <<"c","h","e","a","p","e","r"," ","t","h","a","n">>,
    <<"a","b","o","v","e">>,
    <<"o","v","e","r">>,
    <<"m","o","r","e"," ","t","h","a","n">>,
    <<"g","r","e","a","t","e","r"," ","t","h","a","n">>,
    <<"b","e","t","w","e","e","n">>,
    <<"w","i","t","h"," ","r","a","t","i","n","g"," ","a","b","o","v","e">>,
    <<"r","a","t","i","n","g"," ","a","b","o","v","e">>,
    <<"w","i","t","h"," ","r","a","t","i","n","g"," ","b","e","l","o","w">>,
    <<"r","a","t","i","n","g"," ","b","e","l","o","w">>,
    <<"r","a","t","i","n","g"," ","g","r","e","a","t","e","r">>,
    <<"r","a","t","i","n","g"," ","l","e","s","s">>,
    <<"s","o","r","t"," ","b","y"," ","p","r","i","c","e">>,
    <<"o","r","d","e","r"," ","b","y"," ","p","r","i","c","e">>,
    <<"s","o","r","t"," ","b","y"," ","r","a","t","i","n","g">>,
    <<"o","r","d","e","r"," ","b","y"," ","r","a","t","i","n","g">>,
    <<"s","o","r","t"," ","b","y"," ","d","i","s","c","o","u","n","t">>,
    <<"t","o","p"," ","5">>,
    <<"t","o","p"," ","1","0">>,
    <<"t","o","p"," ","3">>,
    <<"f","i","r","s","t"," ","5">>,
    <<"f","i","r","s","t"," ","1","0">>,
    <<"i","n"," ","s","t","o","c","k">>,
    <<"o","u","t"," ","o","f"," ","s","t","o","c","k">>,
    <<"l","i","s","t"," ","a","l","l">>,
    <<"s","h","o","w"," ","a","l","l">>,
    <<"a","l","l"," ","p","r","o","d","u","c","t","s">>,
    <<"g","r","o","u","p"," ","b","y">>,
    <<"b","r","e","a","k","d","o","w","n">>,
    <<"d","i","s","t","r","i","b","u","t","i","o","n">>,
    <<"m","i","n","i","m","u","m">>,
    <<"m","a","x","i","m","u","m">>,
    <<"w","h","i","c","h"," ","c","i","t","y">>,
    <<"s","e","l","l","e","r"," ","c","o","u","n","t">>,
    <<"h","o","w"," ","m","a","n","y"," ","s","e","l","l","e","r","s">>,
    <<"h","o","w"," ","m","a","n","y"," ","c","i","t","i","e","s">>,
    <<"l","i","s","t","e","d"," ","i","n">>,
    <<"l","i","s","t","e","d"," ","o","n">>,
    <<"l","i","s","t","e","d"," ","a","f","t","e","r">>,
    <<"l","i","s","t","e","d"," ","b","e","f","o","r","e">>,
    <<"n","e","w","e","s","t">>,
    <<"o","l","d","e","s","t">>,
    <<"r","e","c","e","n","t">>,
    <<"r","e","t","u","r","n","a","b","l","e"," ","p","r","o","d","u","c","t","s">>,
    <<"n","o","n"," ","r","e","t","u","r","n","a","b","l","e">>,
    <<"a","c","c","e","p","t"," ","c","o","d">>,
    <<"a","c","c","e","p","t"," ","u","p","i">>,
    <<"a","c","c","e","p","t"," ","c","a","r","d">>,
    <<"a","c","c","e","p","t"," ","w","a","l","l","e","t">>,
    <<"p","a","y","m","e","n","t"," ","m","o","d","e">>
  >>

DEFINITE_SEMANTIC ==
  <<
    <<"w","h","a","t"," ","i","s"," ","t","h","e"," ","p","r","i","c","e">>,
    <<"p","r","i","c","e"," ","o","f">>,
    <<"c","o","s","t"," ","o","f">>,
    <<"h","o","w"," ","m","u","c","h"," ","i","s">>,
    <<"h","o","w"," ","m","u","c","h"," ","d","o","e","s">>,
    <<"t","e","l","l"," ","m","e"," ","a","b","o","u","t">>,
    <<"d","e","s","c","r","i","b","e">>,
    <<"d","e","t","a","i","l","s"," ","o","f">>,
    <<"i","n","f","o"," ","a","b","o","u","t">>,
    <<"i","n","f","o","r","m","a","t","i","o","n"," ","a","b","o","u","t">>,
    <<"a","b","o","u","t"," ","t","h","e"," ","p","r","o","d","u","c","t">>,
    <<"i","s"," ","t","h","e","r","e">>,
    <<"d","o"," ","y","o","u"," ","h","a","v","e">>,
    <<"i","s"," ","i","t"," ","a","v","a","i","l","a","b","l","e">>,
    <<"a","v","a","i","l","a","b","l","e"," ","i","n">>,
    <<"w","a","r","r","a","n","t","y"," ","o","f">>,
    <<"w","a","r","r","a","n","t","y"," ","o","n">>,
    <<"r","e","t","u","r","n"," ","p","o","l","i","c","y"," ","o","f">>,
    <<"r","e","t","u","r","n"," ","w","i","n","d","o","w">>,
    <<"d","e","l","i","v","e","r","y"," ","t","i","m","e"," ","f","o","r">>,
    <<"w","h","e","n"," ","w","i","l","l">>,
    <<"c","o","l","o","r"," ","o","f">>,
    <<"s","i","z","e"," ","o","f">>,
    <<"w","e","i","g","h","t"," ","o","f">>,
    <<"s","e","l","l","e","r"," ","o","f">>,
    <<"w","h","o"," ","s","e","l","l","s">>,
    <<"w","h","e","r","e"," ","i","s">>,
    <<"p","a","y","m","e","n","t"," ","m","o","d","e","s"," ","f","o","r">>,
    <<"h","o","w"," ","t","o"," ","p","a","y">>,
    <<"r","a","t","i","n","g"," ","o","f">>,
    <<"r","e","v","i","e","w","s"," ","o","f">>,
    <<"d","i","s","c","o","u","n","t"," ","o","n">>,
    <<"o","f","f","e","r"," ","o","n">>,
    <<"s","e","l","l","e","r"," ","r","a","t","i","n","g"," ","o","f">>,
    <<"s","h","o","w"," ","m","e">>,
    <<"f","i","n","d"," ","m","e">>,
    <<"s","e","a","r","c","h"," ","f","o","r">>,
    <<"r","e","c","o","m","m","e","n","d">>,
    <<"s","u","g","g","e","s","t">>,
    <<"s","i","m","i","l","a","r"," ","t","o">>,
    <<"l","i","k","e"," ","t","h","e">>,
    <<"i","s"," ","t","h","e","r","e"," ","a","n","y">>,
    <<"a","n","y"," ","p","r","o","d","u","c","t">>,
    <<"a","n","y"," ","b","r","a","n","d">>,
    <<"d","o"," ","y","o","u"," ","s","e","l","l">>
  >>

\* The alternatives of PRODUCT_NAME_PATTERNS[0]
PRODUCT_NAME_WORDS ==
  <<
    <<"m","o","d","e","l">>,
    <<"e","d","i","t","i","o","n">>,
    <<"s","e","r","i","e","s">>,
    <<"p","r","i","m","e">>,
    <<"u","l","t","r","a">>,
    <<"p","r","o">>,
    <<"m","a","x">>,
    <<"m","i","n","i">>,
    <<"l","i","t","e">>,
    <<"p","l","u","s">>
  >>

OVERRIDE_SQL_KEYWORDS ==
  <<
    <<"h","o","w"," ","m","a","n","y">>,
    <<"c","o","u","n","t">>,
    <<"a","v","e","r","a","g","e">>,
    <<"a","v","g">>,
    <<"t","o","t","a","l">>,
    <<"s","u","m">>,
    <<"l","i","s","t"," ","a","l","l">>,
    <<"s","h","o","w"," ","a","l","l">>,
    <<"t","o","p"," ","5">>,
    <<"t","o","p"," ","1","0">>,
    <<"t","o","p"," ","3">>
  >>

(***************************************************************************)
(* Bounds of the model                                                     *)
(***************************************************************************)
\* Most fragments concatenated into one question text
MaxFrags == 3

\* Most classify_intent calls in one process run
MaxCalls == 4

\* lru_cache(maxsize=256), scaled down so that a run can fill the cache
MaxSize == 2

\* Most phrases a question is extended with
MaxExtend == 1

\* How many pieces a question that reaches generate_sql is made of
MaxSqlFrags == 2

(***************************************************************************)
(* Product name detector and override resolver                             *)
(***************************************************************************)
\* PRODUCT_NAME_PATTERNS[0] under re.IGNORECASE:
\* \b(model|edition|series|prime|ultra|pro|max|mini|lite|plus)\b
MatchesProductWord(q) ==
  \E folded \in {lower(q)} :
    \E k \in 1..Len(PRODUCT_NAME_WORDS) :
      _contains_keyword(folded, PRODUCT_NAME_WORDS[k])

\* PRODUCT_NAME_PATTERNS[1]: \b[A-Za-z]+\s+\d{2,4}\b
\* letters q[i..j], blanks q[j+1..k], digits q[k+1..k+n]
MatchesWordNumber(q) ==
  \E i \in 1..Len(q) :
    /\ IsLetter(q[i])
    /\ AtWordBoundary(q, i)
    /\ \E j \in i..Len(q) :
         /\ \A p \in i..j : IsLetter(q[p])
         /\ \E k \in (j + 1)..Len(q) :
              /\ \A p \in (j + 1)..k : q[p] \in Whitespace
              /\ \E n \in 2..4 :
                   /\ k + n <= Len(q)
                   /\ \A p \in (k + 1)..(k + n) : q[p] \in Digits
                   /\ AtWordBoundary(q, k + n + 1)

_is_product_name_query(q) == MatchesProductWord(q) \/ MatchesWordNumber(q)

_has_override_sql(q) ==
  \E k \in 1..Len(OVERRIDE_SQL_KEYWORDS) :
    _contains_keyword(q, OVERRIDE_SQL_KEYWORDS[k])

(***************************************************************************)
(* Confidence scorer                                                       *)
(***************************************************************************)
\* sum(1 for kw in keywords if _contains_keyword(q, kw))
CountMatches(q, keywords) ==
  Cardinality({k \in 1..Len(keywords) : _contains_keyword(q, keywords[k])})

_compute_scores(q) ==
  <<CountMatches(q, DEFINITE_SQL), CountMatches(q, DEFINITE_SEMANTIC)>>

(***************************************************************************)
(* Telemetry records                                                       *)
(***************************************************************************)
\* intent.upper()
upper(intent) ==
  CASE intent = "sql" -> "SQL"
    [] intent = "semantic" -> "SEMANTIC"
    [] OTHER -> intent

\* The line logging.info writes
_log_decision(question, intent, method, sql_score, sem_score) ==
  [level |-> "INFO", intent |-> upper(intent), method |-> method,
   sql |-> sql_score, sem |-> sem_score, q |-> question]

\* The line logging.warning writes
_log_ambiguous(question, sql_score, sem_score) ==
  [level |-> "WARNING", intent |-> "AMBIGUOUS", method |-> "AMBIGUOUS",
   sql |-> sql_score, sem |-> sem_score, q |-> question]

\* emit that lets a failed write reach the caller of logging.info
emit_Propagates(record, fails) ==
  [lines |-> IF fails THEN <<>> ELSE <<record>>, raised |-> fails]

\* What logging.info and logging.warning do with a record: they hand it to
\* the file handler of basicConfig, whose emit formats, writes and flushes
\* it inside try/except and, when any of that fails, calls handleError,
\* which reports on stderr and returns.  lines: what reaches
\* classifier_log.txt; raised: whether an exception reaches the caller.
emit(record, fails) ==
  [lines |-> IF fails THEN <<>> ELSE <<record>>, raised |-> FALSE]

\* The records of one call handed to the log in order, the writes of the
\* levels in failing being the ones that fail; a write that raises ends
\* the call
RECURSIVE WriteAll(_, _)
WriteAll(records, failing) ==
  IF records = <<>> THEN [lines |-> <<>>, raised |-> FALSE]
  ELSE LET first == emit(Head(records), Head(records).level \in failing)
           rest == WriteAll(Tail(records), failing)
       IN  IF first.raised THEN first
           ELSE [lines |-> first.lines \o rest.lines, raised |-> rest.raised]

\* The levels of the records of one call
LevelsOf(records) == {records[i].level : i \in 1..Len(records)}

(***************************************************************************)
(* LLM fallback behind lru_cache                                           *)
(***************************************************************************)
\* The model argument: None, or a model object
None == "None"

\* bool(model) in "if model:"
Truthy(model) == model # None

\* hash(model), which lru_cache takes of every argument to build its key;
\* an object whose class defines __eq__ without __hash__ is unhashable
Hashable(model) == model # "llm_unhashable"

\* What model.invoke(messages) does: it raises, or it returns a result
\* whose content is a text
NoResponse == [kind |-> "none", content |-> <<>>]

Raises == [kind |-> "raise", content |-> <<>>]

Returns(content) == [kind |-> "text", content |-> content]

\* LlmLabel that looks for "sql" in the whole output
LlmLabel_AnyToken(content) ==
  LET tokens == split(lower(strip(content)))
  IN  IF tokens = <<>> THEN "IndexError"
      ELSE IF IsSubstring(<<"s","q","l">>, lower(content)) THEN "sql"
      ELSE "semantic"

\* intent = result.content.strip().lower().split()[0]
\* return "sql" if "sql" in intent else "semantic"
LlmLabel(content) ==
  LET tokens == split(lower(strip(content)))
  IN  IF tokens = <<>> THEN "IndexError"
      ELSE IF IsSubstring(<<"s","q","l">>, tokens[1]) THEN "sql"
      ELSE "semantic"

\* Position of the key (question, model) in the cache, 0 when absent.
\* The cache is ordered from least to most recently used.
CacheIndex(cache, question, model) ==
  IF \E i \in 1..Len(cache) :
       cache[i].question = question /\ cache[i].model = model
    THEN CHOOSE i \in 1..Len(cache) :
           cache[i].question = question /\ cache[i].model = model
    ELSE 0

\* A hit that leaves the order of the cache as it is
Touch_KeepsOrder(cache, i) == cache

\* A hit moves the entry to the most recently used end
Touch(cache, i) ==
  SubSeq(cache, 1, i - 1) \o SubSeq(cache, i + 1, Len(cache)) \o <<cache[i]>>

\* A new entry evicts the least recently used one when the cache is full
Store(cache, question, model, value) ==
  LET entry == [question |-> question, model |-> model, value |-> value]
  IN  IF Len(cache) >= MaxSize
        THEN Tail(cache) \o <<entry>>
        ELSE cache \o <<entry>>

\* _llm_classify whose wrapper also stores the exception of model.invoke
_llm_classify_CachesFailure(question, model, response, cache) ==
  LET i == CacheIndex(cache, question, model)
      label == LlmLabel(response.content)
  IN  IF ~Hashable(model)
        THEN [result |-> "TypeError", cache |-> cache, invoked |-> FALSE]
      ELSE IF i > 0
        THEN [result |-> cache[i].value, cache |-> Touch(cache, i),
              invoked |-> FALSE]
      ELSE IF response.kind # "text"
        THEN [result |-> "Exception",
              cache |-> Store(cache, question, model, "Exception"),
              invoked |-> TRUE]
      ELSE IF label = "IndexError"
        THEN [result |-> "IndexError", cache |-> cache, invoked |-> TRUE]
      ELSE [result |-> label, cache |-> Store(cache, question, model, label),
            invoked |-> TRUE]

\* One call _llm_classify(question, model) through its lru_cache wrapper.
\* result: the label returned or the exception raised; invoked: whether
\* model.invoke ran, with response being what it did.
_llm_classify(question, model, response, cache) ==
  LET i == CacheIndex(cache, question, model)
      label == LlmLabel(response.content)
  IN  IF ~Hashable(model)
        THEN [result |-> "TypeError", cache |-> cache, invoked |-> FALSE]
      ELSE IF i > 0
        THEN [result |-> cache[i].value, cache |-> Touch(cache, i),
              invoked |-> FALSE]
      ELSE IF response.kind # "text"
        THEN [result |-> "Exception", cache |-> cache, invoked |-> TRUE]
      ELSE IF label = "IndexError"
        THEN [result |-> "IndexError", cache |-> cache, invoked |-> TRUE]
      ELSE [result |-> label, cache |-> Store(cache, question, model, label),
            invoked |-> TRUE]

Labels == {"sql", "semantic"}

(***************************************************************************)
(* Main classifier                                                         *)
(***************************************************************************)
\* Rule1 without the override test
Rule1_IgnoresOverride(q) == _is_product_name_query(q)

\* Step 1: product name pattern, unless a strong SQL keyword overrides it
Rule1(q) == _is_product_name_query(q) /\ ~_has_override_sql(q)

\* ScoreDecision with the labels of the two confidence_winner tests swapped
ScoreDecision_SwappedWinner(sql_score, semantic_score) ==
  IF sql_score > 0 /\ semantic_score = 0 THEN <<"sql", "keyword_only">>
  ELSE IF semantic_score > 0 /\ sql_score = 0
    THEN <<"semantic", "keyword_only">>
  ELSE IF sql_score > semantic_score
    THEN <<"semantic", "confidence_winner">>
  ELSE IF semantic_score > sql_score THEN <<"sql", "confidence_winner">>
  ELSE <<"ambiguous", "tie">>

\* ScoreDecision without the two keyword_only tests
ScoreDecision_WinnerOnly(sql_score, semantic_score) ==
  IF sql_score > semantic_score THEN <<"sql", "confidence_winner">>
  ELSE IF semantic_score > sql_score THEN <<"semantic", "confidence_winner">>
  ELSE <<"ambiguous", "tie">>

\* Step 2: the four score comparisons, in order; <<intent, method>>
ScoreDecision(sql_score, semantic_score) ==
  IF sql_score > 0 /\ semantic_score = 0 THEN <<"sql", "keyword_only">>
  ELSE IF semantic_score > 0 /\ sql_score = 0
    THEN <<"semantic", "keyword_only">>
  ELSE IF sql_score > semantic_score THEN <<"sql", "confidence_winner">>
  ELSE IF semantic_score > sql_score THEN <<"semantic", "confidence_winner">>
  ELSE <<"ambiguous", "tie">>

\* Fallback that logs no warning record when no model is supplied
Fallback_NoWarning(question, model, response, cache, sql_score, semantic_score) ==
  LET warning == _log_ambiguous(question, sql_score, semantic_score)
      llm == _llm_classify(question, model, response, cache)
  IN  IF Truthy(model)
        THEN IF llm.result \in Labels
               THEN [ret |-> llm.result,
                     records |-> <<warning,
                                   _log_decision(question, llm.result,
                                                 "llm_fallback", sql_score,
                                                 semantic_score)>>,
                     cache |-> llm.cache, invoked |-> llm.invoked]
               ELSE [ret |-> llm.result, records |-> <<warning>>,
                     cache |-> llm.cache, invoked |-> llm.invoked]
        ELSE [ret |-> "semantic",
              records |-> <<_log_decision(question, "semantic",
                                          "default_fallback", sql_score,
                                          semantic_score)>>,
              cache |-> cache, invoked |-> FALSE]

\* Fallback that returns the safe default instead of the label of
\* _llm_classify
Fallback_IgnoresLlm(question, model, response, cache, sql_score, semantic_score) ==
  LET warning == _log_ambiguous(question, sql_score, semantic_score)
      llm == _llm_classify(question, model, response, cache)
  IN  IF Truthy(model)
        THEN IF llm.result \in Labels
               THEN [ret |-> "semantic",
                     records |-> <<warning,
                                   _log_decision(question, "semantic",
                                                 "llm_fallback", sql_score,
                                                 semantic_score)>>,
                     cache |-> llm.cache, invoked |-> llm.invoked]
               ELSE [ret |-> llm.result, records |-> <<warning>>,
                     cache |-> llm.cache, invoked |-> llm.invoked]
        ELSE [ret |-> "semantic",
              records |-> <<warning,
                            _log_decision(question, "semantic",
                                          "default_fallback", sql_score,
                                          semantic_score)>>,
              cache |-> cache, invoked |-> FALSE]

\* Fallback that writes the warning record after the decision record
Fallback_WarningAfterDecision(question, model, response, cache, sql_score, semantic_score) ==
  LET warning == _log_ambiguous(question, sql_score, semantic_score)
      llm == _llm_classify(question, model, response, cache)
  IN  IF Truthy(model)
        THEN IF llm.result \in Labels
               THEN [ret |-> llm.result,
                     records |-> <<_log_decision(question, llm.result,
                                                 "llm_fallback", sql_score,
                                                 semantic_score),
                                   warning>>,
                     cache |-> llm.cache, invoked |-> llm.invoked]
               ELSE [ret |-> llm.result, records |-> <<>>,
                     cache |-> llm.cache, invoked |-> llm.invoked]
        ELSE [ret |-> "semantic",
              records |-> <<_log_decision(question, "semantic",
                                          "default_fallback", sql_score,
                                          semantic_score),
                            warning>>,
              cache |-> cache, invoked |-> FALSE]

\* Fallback that, without a model, returns the label an earlier call cached
\* for the question
Fallback_CachedDefault(question, model, response, cache, sql_score, semantic_score) ==
  LET warning == _log_ambiguous(question, sql_score, semantic_score)
      llm == _llm_classify(question, model, response, cache)
      known == {i \in 1..Len(cache) : cache[i].question = question}
      default == IF known = {} THEN "semantic"
                 ELSE cache[CHOOSE i \in known : TRUE].value
  IN  IF Truthy(model)
        THEN IF llm.result \in Labels
               THEN [ret |-> llm.result,
                     records |-> <<warning,
                                   _log_decision(question, llm.result,
                                                 "llm_fallback", sql_score,
                                                 semantic_score)>>,
                     cache |-> llm.cache, invoked |-> llm.invoked]
               ELSE [ret |-> llm.result, records |-> <<warning>>,
                     cache |-> llm.cache, invoked |-> llm.invoked]
        ELSE [ret |-> default,
              records |-> <<warning,
                            _log_decision(question, default,
                                          "default_fallback", sql_score,
                                          semantic_score)>>,
              cache |-> cache, invoked |-> FALSE]

\* Steps 3 and 4: tied scores
Fallback(question, model, response, cache, sql_score, semantic_score) ==
  LET warning == _log_ambiguous(question, sql_score, semantic_score)
      llm == _llm_classify(question, model, response, cache)
  IN  IF Truthy(model)
        THEN IF llm.result \in Labels
               THEN [ret |-> llm.result,
                     records |-> <<warning,
                                   _log_decision(question, llm.result,
                                                 "llm_fallback", sql_score,
                                                 semantic_score)>>,
                     cache |-> llm.cache, invoked |-> llm.invoked]
               ELSE [ret |-> llm.result, records |-> <<warning>>,
                     cache |-> llm.cache, invoked |-> llm.invoked]
        ELSE [ret |-> "semantic",
              records |-> <<warning,
                            _log_decision(question, "semantic",
                                          "default_fallback", sql_score,
                                          semantic_score)>>,
              cache |-> cache, invoked |-> FALSE]

\* KeywordDecision that compares the scores before it tests the product
\* name pattern
KeywordDecision_ScoresFirst(question) ==
  LET q == strip(lower(question))
      scores == _compute_scores(q)
      decision == ScoreDecision(scores[1], scores[2])
  IN  IF decision[1] \in Labels
        THEN [intent |-> decision[1], method |-> decision[2],
              sql |-> scores[1], sem |-> scores[2]]
      ELSE IF Rule1(q)
        THEN [intent |-> "semantic", method |-> "product_name_pattern",
              sql |-> 0, sem |-> 0]
        ELSE [intent |-> decision[1], method |-> decision[2],
              sql |-> scores[1], sem |-> scores[2]]

\* KeywordDecision that matches against the question as typed
KeywordDecision_RawText(question) ==
  LET scores == _compute_scores(question)
      decision == ScoreDecision(scores[1], scores[2])
  IN  IF Rule1(question)
        THEN [intent |-> "semantic", method |-> "product_name_pattern",
              sql |-> 0, sem |-> 0]
        ELSE [intent |-> decision[1], method |-> decision[2],
              sql |-> scores[1], sem |-> scores[2]]

\* Steps 1 and 2 of classify_intent, which read the question only: the
\* intent and method decided and the scores logged, or intent "ambiguous"
\* with the tied scores
KeywordDecision(question) ==
  LET q == strip(lower(question))
      scores == _compute_scores(q)
      decision == ScoreDecision(scores[1], scores[2])
  IN  IF Rule1(q)
        THEN [intent |-> "semantic", method |-> "product_name_pattern",
              sql |-> 0, sem |-> 0]
        ELSE [intent |-> decision[1], method |-> decision[2],
              sql |-> scores[1], sem |-> scores[2]]

\* Outcome that escalates to the model whenever one is supplied, on the
\* decided paths too
Outcome_AlwaysEscalates(d, question, model, response, cache) ==
  IF d.intent \in Labels /\ ~Truthy(model)
    THEN [ret |-> d.intent,
          records |-> <<_log_decision(question, d.intent, d.method,
                                      d.sql, d.sem)>>,
          cache |-> cache, invoked |-> FALSE]
    ELSE Fallback(question, model, response, cache, d.sql, d.sem)

\* The outcome of one call once steps 1 and 2 gave d: what the call
\* returns or raises (ret), the telemetry records it appends, the cache it
\* leaves, and whether it invoked the model
Outcome(d, question, model, response, cache) ==
  IF d.intent \in Labels
    THEN [ret |-> d.intent,
          records |-> <<_log_decision(question, d.intent, d.method,
                                      d.sql, d.sem)>>,
          cache |-> cache, invoked |-> FALSE]
    ELSE Fallback(question, model, response, cache, d.sql, d.sem)

(***************************************************************************)
(* Debug helper                                                            *)
(***************************************************************************)
\* No breakdown has been computed
NoDetails == [question |-> <<>>, intent |-> "none", sql_score |-> 0,
              semantic_score |-> 0, method |-> "none",
              product_pattern |-> FALSE, sql_override |-> FALSE]

\* A breakdown that names the method of every decided question
\* keyword_only
ClassificationDetails_OneMethod(question) ==
  LET q == strip(lower(question))
      scores == _compute_scores(q)
      has_product == _is_product_name_query(q)
      has_override == _has_override_sql(q)
      decision ==
        IF has_product /\ ~has_override
          THEN <<"semantic", "product_name_pattern">>
        ELSE IF scores[1] > scores[2] THEN <<"sql", "keyword_only">>
        ELSE IF scores[2] > scores[1] THEN <<"semantic", "keyword_only">>
        ELSE <<"ambiguous", "needs_llm_fallback">>
  IN  [question |-> question, intent |-> decision[1],
       sql_score |-> scores[1], semantic_score |-> scores[2],
       method |-> decision[2], product_pattern |-> has_product,
       sql_override |-> has_override]

\* The dict get_classification_details(question) returns
ClassificationDetails(question) ==
  LET q == strip(lower(question))
      scores == _compute_scores(q)
      sql_score == scores[1]
      sem == scores[2]
      has_product == _is_product_name_query(q)
      has_override == _has_override_sql(q)
      decision ==
        IF has_product /\ ~has_override
          THEN <<"semantic", "product_name_pattern">>
        ELSE IF sql_score > sem
          THEN <<"sql", IF sem > 0 THEN "confidence_winner"
                                   ELSE "keyword_only">>
        ELSE IF sem > sql_score
          THEN <<"semantic", IF sql_score > 0 THEN "confidence_winner"
                                              ELSE "keyword_only">>
        ELSE <<"ambiguous", "needs_llm_fallback">>
  IN  [question |-> question, intent |-> decision[1],
       sql_score |-> sql_score, semantic_score |-> sem,
       method |-> decision[2], product_pattern |-> has_product,
       sql_override |-> has_override]

(***************************************************************************)
(* Rule-based SQL generation (text_to_sql.py)                              *)
(***************************************************************************)
\* The brands a question can name
BRANDS ==
  <<
    <<"a","d","i","d","a","s">>,
    <<"n","i","k","e">>,
    <<"d","e","l","l">>,
    <<"s","o","n","y">>,
    <<"l","g">>,
    <<"p","u","m","a">>,
    <<"b","o","a","t">>,
    <<"r","e","d","m","i">>,
    <<"s","a","m","s","u","n","g">>,
    <<"a","p","p","l","e">>,
    <<"h","p">>,
    <<"l","e","n","o","v","o">>
  >>

\* The categories a question can name
CATEGORIES ==
  <<
    <<"e","l","e","c","t","r","o","n","i","c","s">>,
    <<"f","a","s","h","i","o","n">>,
    <<"a","p","p","l","i","a","n","c","e","s">>,
    <<"t","o","y","s">>,
    <<"s","p","o","r","t","s">>,
    <<"m","o","b","i","l","e","s">>,
    <<"h","o","m","e"," ","&"," ","k","i","t","c","h","e","n">>,
    <<"b","e","a","u","t","y">>
  >>

\* The words of one branch of generate_sql
COUNT_WORDS ==
  <<
    <<"h","o","w"," ","m","a","n","y">>,
    <<"c","o","u","n","t">>,
    <<"n","u","m","b","e","r"," ","o","f">>,
    <<"t","o","t","a","l"," ","n","u","m","b","e","r">>
  >>

\* The words of one branch of generate_sql
AVG_RATING_WORDS ==
  <<
    <<"a","v","e","r","a","g","e"," ","r","a","t","i","n","g">>,
    <<"a","v","g"," ","r","a","t","i","n","g">>
  >>

\* The words of one branch of generate_sql
AVG_PRICE_WORDS ==
  <<
    <<"a","v","e","r","a","g","e"," ","p","r","i","c","e">>,
    <<"a","v","g"," ","p","r","i","c","e">>
  >>

\* The words of one branch of generate_sql
AVG_DISCOUNT_WORDS ==
  <<
    <<"a","v","e","r","a","g","e"," ","d","i","s","c","o","u","n","t">>,
    <<"a","v","g"," ","d","i","s","c","o","u","n","t">>
  >>

\* The words of one branch of generate_sql
TOTAL_STOCK_WORDS ==
  <<
    <<"t","o","t","a","l"," ","s","t","o","c","k">>,
    <<"t","o","t","a","l"," ","i","n","v","e","n","t","o","r","y">>
  >>

\* The words of one branch of generate_sql
TOTAL_SOLD_WORDS ==
  <<
    <<"t","o","t","a","l"," ","s","a","l","e","s">>,
    <<"t","o","t","a","l"," ","u","n","i","t","s"," ","s","o","l","d">>,
    <<"u","n","i","t","s"," ","s","o","l","d">>
  >>

\* The words of one branch of generate_sql
TOTAL_REVENUE_WORDS ==
  <<
    <<"t","o","t","a","l"," ","r","e","v","e","n","u","e">>,
    <<"t","o","t","a","l"," ","v","a","l","u","e">>
  >>

\* The words of one branch of generate_sql
UNDER_WORDS ==
  <<
    <<"u","n","d","e","r">>,
    <<"b","e","l","o","w">>,
    <<"l","e","s","s"," ","t","h","a","n">>,
    <<"c","h","e","a","p","e","r"," ","t","h","a","n">>
  >>

\* The words of one branch of generate_sql
OVER_WORDS ==
  <<
    <<"a","b","o","v","e">>,
    <<"o","v","e","r">>,
    <<"m","o","r","e"," ","t","h","a","n">>,
    <<"g","r","e","a","t","e","r"," ","t","h","a","n">>
  >>

\* The words of one branch of generate_sql
MOST_EXPENSIVE_WORDS ==
  <<
    <<"m","o","s","t"," ","e","x","p","e","n","s","i","v","e">>,
    <<"h","i","g","h","e","s","t"," ","p","r","i","c","e">>
  >>

\* The words of one branch of generate_sql
CHEAPEST_WORDS ==
  <<
    <<"c","h","e","a","p","e","s","t">>,
    <<"l","o","w","e","s","t"," ","p","r","i","c","e">>
  >>

\* The words of one branch of generate_sql
BEST_RATED_WORDS ==
  <<
    <<"b","e","s","t"," ","r","a","t","e","d">>,
    <<"h","i","g","h","e","s","t"," ","r","a","t","e","d">>,
    <<"t","o","p"," ","r","a","t","e","d">>
  >>

\* The words of one branch of generate_sql
WORST_RATED_WORDS ==
  <<
    <<"w","o","r","s","t"," ","r","a","t","e","d">>,
    <<"l","o","w","e","s","t"," ","r","a","t","e","d">>
  >>

\* The words of one branch of generate_sql
BEST_SELLING_WORDS ==
  <<
    <<"b","e","s","t"," ","s","e","l","l","i","n","g">>,
    <<"m","o","s","t"," ","s","o","l","d">>,
    <<"t","o","p"," ","s","e","l","l","i","n","g">>,
    <<"p","o","p","u","l","a","r">>
  >>

\* The words of one branch of generate_sql
HIGHEST_DISCOUNT_WORDS ==
  <<
    <<"h","i","g","h","e","s","t"," ","d","i","s","c","o","u","n","t">>,
    <<"m","o","s","t"," ","d","i","s","c","o","u","n","t">>,
    <<"b","e","s","t"," ","d","e","a","l">>
  >>

\* The words of one branch of generate_sql
LIST_ALL_WORDS ==
  <<
    <<"l","i","s","t"," ","a","l","l">>,
    <<"s","h","o","w"," ","a","l","l">>,
    <<"a","l","l"," ","p","r","o","d","u","c","t","s">>
  >>

\* str.capitalize()
capitalize(s) ==
  IF s = <<>> THEN <<>> ELSE <<UpperChar(s[1])>> \o lower(Tail(s))

\* str.title()
title(s) ==
  [i \in 1..Len(s) |->
     IF i = 1 \/ ~IsLetter(s[i - 1]) THEN UpperChar(s[i])
     ELSE LowerChar(s[i])]

\* any(w in q for w in words)
AnyIn(words, q) == \E k \in 1..Len(words) : IsSubstring(words[k], q)

\* The first word of the list that occurs in q
FirstIn(words, q) ==
  words[CHOOSE k \in 1..Len(words) :
          /\ IsSubstring(words[k], q)
          /\ \A j \in 1..(k - 1) : ~IsSubstring(words[j], q)]

\* The brand or category of a question that names none
NoMatch == <<>>

_extract_brand(q) ==
  IF AnyIn(BRANDS, q) THEN capitalize(FirstIn(BRANDS, q)) ELSE NoMatch

_extract_category(q) ==
  IF AnyIn(CATEGORIES, q) THEN title(FirstIn(CATEGORIES, q)) ELSE NoMatch

\* int() of a text of decimal digits
DigitValue(c) ==
  CHOOSE v \in 0..9 :
    c = <<"0","1","2","3","4","5","6","7","8","9">>[v + 1]

RECURSIVE ToInt(_)
ToInt(digits) ==
  IF digits = <<>> THEN 0
  ELSE 10 * ToInt(SubSeq(digits, 1, Len(digits) - 1))
         + DigitValue(digits[Len(digits)])

IsDigit(c) == c \in Digits

\* The price limit of a question that holds no digit
NoPrice == [found |-> FALSE, value |-> 0]

\* re.search(r'₹?\s*(\d[\d,]*)', q): group 1 starts at the first digit of
\* q and runs over the digits and commas that follow it
_extract_price(q) ==
  LET starts == {i \in 1..Len(q) : IsDigit(q[i])}
  IN  IF starts = {} THEN NoPrice
      ELSE LET i == CHOOSE s \in starts : \A o \in starts : s <= o
               j == CHOOSE e \in i..Len(q) :
                      /\ \A k \in i..e : IsDigit(q[k]) \/ q[k] = ","
                      /\ e = Len(q) \/ ~(IsDigit(q[e + 1]) \/ q[e + 1] = ",")
           IN  [found |-> TRUE,
                value |-> ToInt(SelectSeq(SubSeq(q, i, j), IsDigit))]

\* "if price": None and 0 are false
HasPrice(price) == price.found /\ price.value # 0

\* The conditions of the WHERE clause, none when the clause is empty
_build_where(brand, category) ==
  (IF brand # NoMatch THEN <<[column |-> "brand", value |-> brand]>>
   ELSE <<>>)
  \o (IF category # NoMatch
        THEN <<[column |-> "category", value |-> category]>>
        ELSE <<>>)

\* The price condition of a query that has none
NoExtra == [op |-> "", value |-> 0]

\* A query by its parts: the select list, the conditions of the WHERE
\* clause, the price condition, ORDER BY and LIMIT (0: none)
Query(select, where, extra, order, limit) ==
  [select |-> select, where |-> where, extra |-> extra, order |-> order,
   limit |-> limit]

\* generate_sql(question): the first branch whose words occur in the
\* lowered question gives the query
generate_sql(question) ==
  LET q == lower(question)
      brand == _extract_brand(q)
      cat == _extract_category(q)
      price == _extract_price(q)
      where == _build_where(brand, cat)
  IN  IF AnyIn(COUNT_WORDS, q)
        THEN Query("COUNT(*) as total", where, NoExtra, "", 0)
      ELSE IF AnyIn(AVG_RATING_WORDS, q)
        THEN Query("ROUND(AVG(rating), 2) as avg_rating", where, NoExtra,
                   "", 0)
      ELSE IF AnyIn(AVG_PRICE_WORDS, q)
        THEN Query("ROUND(AVG(final_price), 2) as avg_price", where,
                   NoExtra, "", 0)
      ELSE IF AnyIn(AVG_DISCOUNT_WORDS, q)
        THEN Query("ROUND(AVG(discount_percent), 2) as avg_discount", where,
                   NoExtra, "", 0)
      ELSE IF AnyIn(TOTAL_STOCK_WORDS, q)
        THEN Query("SUM(stock_available) as total_stock", where, NoExtra,
                   "", 0)
      ELSE IF AnyIn(TOTAL_SOLD_WORDS, q)
        THEN Query("SUM(units_sold) as total_sold", where, NoExtra, "", 0)
      ELSE IF AnyIn(TOTAL_REVENUE_WORDS, q)
        THEN Query("ROUND(SUM(final_price * units_sold), 2) as total_revenue",
                   where, NoExtra, "", 0)
      ELSE IF HasPrice(price) /\ AnyIn(UNDER_WORDS, q)
        THEN Query("product_name, brand, final_price, rating", where,
                   [op |-> "final_price <", value |-> price.value],
                   "final_price ASC", 10)
      ELSE IF HasPrice(price) /\ AnyIn(OVER_WORDS, q)
        THEN Query("product_name, brand, final_price, rating", where,
                   [op |-> "final_price >", value |-> price.value],
                   "final_price DESC", 10)
      ELSE IF AnyIn(MOST_EXPENSIVE_WORDS, q)
        THEN Query("product_name, brand, final_price", where, NoExtra,
                   "final_price DESC", 5)
      ELSE IF AnyIn(CHEAPEST_WORDS, q)
        THEN Query("product_name, brand, final_price", where, NoExtra,
                   "final_price ASC", 5)
      ELSE IF AnyIn(BEST_RATED_WORDS, q)
        THEN Query("product_name, brand, rating", where, NoExtra,
                   "rating DESC", 5)
      ELSE IF AnyIn(WORST_RATED_WORDS, q)
        THEN Query("product_name, brand, rating", where, NoExtra,
                   "rating ASC", 5)
      ELSE IF AnyIn(BEST_SELLING_WORDS, q)
        THEN Query("product_name, brand, units_sold", where, NoExtra,
                   "units_sold DESC", 5)
      ELSE IF AnyIn(HIGHEST_DISCOUNT_WORDS, q)
        THEN Query("product_name, brand, discount_percent, final_price",
                   where, NoExtra, "discount_percent DESC", 5)
      ELSE IF AnyIn(LIST_ALL_WORDS, q)
        THEN Query("product_name, brand, final_price, rating", where,
                   NoExtra, "", 20)
      ELSE Query("COUNT(*) as total", where, NoExtra, "", 0)

\* The query of a session that has generated none
NoQuery == Query("", <<>>, NoExtra, "", 0)

(***************************************************************************)
(* Inputs                                                                  *)
(***************************************************************************)
\* Question texts are concatenations of these fragments
Fragments ==
  <<
    <<"h","o","w"," ","m","a","n","y">>,
    <<"p","o","p","u","l","a","r">>,
    <<"u","n">>,
    <<" ">>,
    <<"u","l","t","r","a">>,
    <<"i","s"," ","t","h","e","r","e"," ","a","n","y">>,
    <<"6","6">>,
    <<"A","v","g"," ","p","r","i","c","e">>,
    <<"p","r","i","c","e"," ","o","f">>
  >>

RECURSIVE Concatenations(_)
Concatenations(n) ==
  IF n = 0 THEN {<<>>}
  ELSE {t \o Fragments[k] :
          t \in Concatenations(n - 1), k \in 1..Len(Fragments)}

Questions == UNION {Concatenations(n) : n \in 0..MaxFrags}

ModelArgs == {None, "llm_a", "llm_unhashable"}

Contents ==
  {
    <<"s","q","l">>,
    <<"s","e","m","a","n","t","i","c">>,
    <<"S","Q","L">>,
    <<" ","S","q","l","\n">>,
    <<>>,
    <<" "," ">>,
    <<"t","h","e"," ","s","q","l">>,
    <<"n","o","s","q","l">>,
    <<"s","e","m","a","n","t","i","c"," ","s","q","l">>
  }

Responses == {Raises} \cup {Returns(c) : c \in Contents}

\* The inputs of a run of several calls
SessionQuestions ==
  {
    <<"x","y","z">>,
    <<"X","Y","Z">>,
    <<"a","b","c">>,
    <<"p","o","p","u","l","a","r">>,
    <<"u","l","t","r","a">>
  }

SessionModelArgs == {None, "llm_a"}

\* The questions that are asked again in another case and with blanks
\* around them
VariantQuestions ==
  {
    <<"h","o","w"," ","m","a","n","y">>,
    <<"u","l","t","r","a"," ","6","6">>,
    <<"p","r","i","c","e"," ","o","f">>,
    <<"h","o","w"," ","m","a","n","y"," ","p","r","i","c","e"," ","o","f">>,
    <<"p","o","p","u","l","a","r"," ","u","l","t","r","a">>,
    <<"a","v","g"," ","p","r","i","c","e"," ","p","r","i","c","e"," ","o","f">>,
    <<"x","y","z">>
  }

\* The texts that differ from the lower-case, trimmed text n in letter
\* case or in leading and trailing blanks only
Variants(n) ==
  {n, UpperText(n), <<" ">> \o n, n \o <<" ", "\n">>,
   <<"\t">> \o UpperText(n) \o <<" ">>,
   <<UpperChar(n[1])>> \o Tail(n)}

\* The threads of the server, one per browser session; they share the
\* module classifier, so its lru_cache, and the model of load_resources
Threads == {"session_1", "session_2"}

\* A thread that is not inside classify_intent
Idle ==
  [pc |-> "idle", question |-> <<>>, call |-> 0, value |-> "none",
   ret |-> "none"]

\* The model object load_resources creates once for all sessions
SharedModel == "llm_a"

\* The ambiguous questions the sessions send, and what the model answers
ConcurrentQuestions == {<<"x","y","z">>, <<"a","b","c">>, <<"X","Y","Z">>}

ConcurrentResponses ==
  {Returns(c) : c \in {<<"s","q","l">>, <<"s","e","m","a","n","t","i","c">>, <<>>}}

\* The sets of levels whose log writes may fail in one call
Faults == SUBSET {"WARNING", "INFO"}

\* The questions whose extensions are scored
ScoringQuestions ==
  {
    <<>>,
    <<"o","f">>,
    <<"a","v","a","i","l","a","b","l","e">>,
    <<"H","o","w"," ","m","a","n","y">>,
    <<"r","a","t","i","n","g"," ","o","f">>
  }

SessionResponses ==
  {Returns(c) : c \in {<<"s","q","l">>, <<"s","e","m","a","n","t","i","c">>, <<>>}}

\* The keys the chat page puts into st.session_state on its first run;
\* chat_history holds the roles of its messages
Defaults ==
  [chat_history |-> <<>>, display_messages |-> <<>>, total_queries |-> 0,
   sql_queries |-> 0, rag_queries |-> 0, ambig_queries |-> 0, db |-> None,
   model |-> None]

\* What the user has typed into the chat input when Send is pressed
ChatInputs ==
  {<<" ","x","y","z">>, <<"h","o","w"," ","m","a","n","y"," ">>,
   <<"p","o","p","u","l","a","r">>, <<" "," ">>}

\* What model.invoke does when the chat page escalates a question
ChatResponses ==
  {Raises, Returns(<<"s","q","l">>),
   Returns(<<"s","e","m","a","n","t","i","c">>)}

\* The entries of display_messages, by role, intent and
\* clf_details.get("method")
UserMessage == [role |-> "user", intent |-> "", method |-> None]

AssistantMessage(intent, clf_details) ==
  [role |-> "assistant", intent |-> intent, method |-> clf_details.method]

ErrorMessage == [role |-> "assistant", intent |-> "", method |-> None]

\* CountAnswer that leaves rag_queries alone
CountAnswer_SkipsRag(state, intent, method) ==
  LET counted == [state EXCEPT !.total_queries = @ + 1]
      routed == IF intent = "sql"
                  THEN [counted EXCEPT !.sql_queries = @ + 1]
                  ELSE counted
  IN  IF method = "llm_fallback"
        THEN [routed EXCEPT !.ambig_queries = @ + 1]
        ELSE routed

\* Update session counters
CountAnswer(state, intent, method) ==
  LET counted == [state EXCEPT !.total_queries = @ + 1]
      routed == IF intent = "sql"
                  THEN [counted EXCEPT !.sql_queries = @ + 1]
                  ELSE [counted EXCEPT !.rag_queries = @ + 1]
  IN  IF method = "llm_fallback"
        THEN [routed EXCEPT !.ambig_queries = @ + 1]
        ELSE routed

\* What model.invoke does in a run whose model server fails at times
RetryResponses == {Raises, Returns(<<"s","q","l">>)}

\* Pieces of the questions that reach generate_sql
SqlFragments ==
  <<
    <<"a","v","e","r","a","g","e"," ","d","i","s","c","o","u","n","t">>,
    <<"a","v","g"," ","d","i","s","c","o","u","n","t">>,
    <<"h","i","g","h","e","s","t"," ","d","i","s","c","o","u","n","t">>,
    <<"m","o","s","t"," ","d","i","s","c","o","u","n","t">>,
    <<"B","e","s","t"," ","D","e","a","l">>,
    <<"h","o","w"," ","m","a","n","y">>,
    <<"a","v","g"," ","r","a","t","i","n","g">>,
    <<"a","v","e","r","a","g","e"," ","p","r","i","c","e">>,
    <<"t","o","t","a","l"," ","s","t","o","c","k">>,
    <<"u","n","i","t","s"," ","s","o","l","d">>,
    <<"t","o","t","a","l"," ","v","a","l","u","e">>,
    <<"u","n","d","e","r"," ","5","0","0">>,
    <<"o","v","e","r"," ","1",",","0","0","0">>,
    <<"b","e","l","o","w"," ","0">>,
    <<"h","i","g","h","e","s","t"," ","p","r","i","c","e">>,
    <<"c","h","e","a","p","e","s","t">>,
    <<"t","o","p"," ","r","a","t","e","d">>,
    <<"w","o","r","s","t"," ","r","a","t","e","d">>,
    <<"p","o","p","u","l","a","r">>,
    <<"s","h","o","w"," ","a","l","l">>,
    <<"n","i","k","e">>,
    <<"t","o","y","s">>,
    <<"h","o","m","e"," ","&"," ","k","i","t","c","h","e","n">>
  >>

RECURSIVE SqlConcatenations(_)
SqlConcatenations(n) ==
  IF n = 1 THEN {SqlFragments[k] : k \in 1..Len(SqlFragments)}
  ELSE {t \o <<" ">> \o SqlFragments[k] :
          t \in SqlConcatenations(n - 1), k \in 1..Len(SqlFragments)}

SqlQuestions == UNION {SqlConcatenations(n) : n \in 1..MaxSqlFrags}

(***************************************************************************)
(* State                                                                   *)
(***************************************************************************)
VARIABLES
  pc,           \* "start": a question has come in; "classify": its
                \* breakdown is computed and classify_intent is about to
                \* run; "done": classify_intent has ended
  question,     \* the question argument of that call
  model,        \* its model argument
  response,     \* what model.invoke did in that call, NoResponse if not run
  ret,          \* the label the call returned, or the exception it raised
  cache,        \* the lru_cache of _llm_classify, least recently used first
  log,          \* the records that call handed to logging, in order
  failing,      \* the levels whose write failed in that call
  file,         \* the lines that call appended to classifier_log.txt
  details,      \* the dict of get_classification_details for the question
  invocations,  \* the model.invoke calls made so far, each with the
                \* arguments and the number of the call that made it
  calls,        \* number of classify_intent calls made
  threads,      \* for each thread that serves a browser session of its
                \* own: where its classify_intent call stands
  session_state, \* st.session_state of the chat page of one browser
                 \* session
  sql            \* the query generate_sql returned last, NoQuery if none

vars ==
  <<pc, question, model, response, ret, cache, log, failing, file, details,
    invocations, calls, threads, session_state, sql>>

\* The state of a fresh process in which the question q has come in
Fresh(q) ==
  /\ pc = "start"
  /\ question = q
  /\ model = None
  /\ response = NoResponse
  /\ ret = "none"
  /\ cache = <<>>
  /\ log = <<>>
  /\ failing = {}
  /\ file = <<>>
  /\ details = NoDetails
  /\ invocations = <<>>
  /\ calls = 0
  /\ threads = [t \in Threads |-> Idle]
  /\ session_state = Defaults
  /\ sql = NoQuery

Init == \E q \in Questions : Fresh(q)

InitSession == \E q \in SessionQuestions : Fresh(q)

InitScoring == \E q \in ScoringQuestions : Fresh(q)

InitVariants == \E q \in VariantQuestions : Fresh(q)

InitConcurrent == Fresh(<<>>)

InitChat == Fresh(<<>>)

InitSql == \E q \in SqlQuestions : Fresh(q)

\* clf_details = get_classification_details(user_question)
get_classification_details ==
  /\ pc = "start"
  /\ details' = ClassificationDetails(question)
  /\ pc' = "classify"
  /\ UNCHANGED <<question, model, response, ret, cache, log, failing, file,
                 invocations, calls, threads>>
  /\ UNCHANGED <<session_state, sql>>

\* One call classify_intent(question, model), with the model argument drawn
\* from models, what model.invoke does, if it runs, from responses, and the
\* levels whose log writes fail from faults
classify_intent(models, responses, faults) ==
  /\ pc = "classify"
  /\ \E d \in {KeywordDecision(question)} :
       \E m \in models, r \in responses \cup {NoResponse} :
         \E out \in {Outcome(d, question, m, r, cache)} :
           \E f \in faults :
             \E w \in {WriteAll(out.records, f)} :
               /\ out.invoked <=> (r # NoResponse)
               /\ f \subseteq LevelsOf(out.records)
               /\ model' = m
               /\ response' = r
               /\ ret' = IF w.raised THEN "OSError" ELSE out.ret
               /\ cache' = out.cache
               /\ log' = out.records
               /\ failing' = f
               /\ file' = w.lines
               /\ invocations' =
                    IF out.invoked
                      THEN Append(invocations,
                                  [question |-> question, model |-> m,
                                   call |-> calls + 1, response |-> r])
                      ELSE invocations
  /\ pc' = "done"
  /\ calls' = calls + 1
  /\ UNCHANGED <<question, details, threads>>
  /\ UNCHANGED <<session_state, sql>>

\* The caller asks the next question of the run
Ask ==
  /\ pc = "done"
  /\ calls < MaxCalls
  /\ question' \in SessionQuestions
  /\ pc' = "start"
  /\ details' = NoDetails
  /\ UNCHANGED <<model, response, ret, cache, log, failing, file,
                 invocations, calls, threads>>
  /\ UNCHANGED <<session_state, sql>>

\* The caller keeps the breakdown of a question and asks the question
\* extended with one more structured phrase, one that does not match yet
Extend ==
  /\ pc = "classify"
  /\ calls < MaxExtend
  /\ \E k \in 1..Len(DEFINITE_SQL) :
       /\ ~_contains_keyword(strip(lower(question)), DEFINITE_SQL[k])
       /\ question' = question \o <<" ">> \o DEFINITE_SQL[k]
  /\ pc' = "start"
  /\ calls' = calls + 1
  /\ UNCHANGED <<model, response, ret, cache, log, failing, file, details,
                 invocations, threads>>
  /\ UNCHANGED <<session_state, sql>>

\* The caller asks the question again in another letter case or with
\* other blanks around it; what the last call left is kept
Vary ==
  /\ pc = "done"
  /\ calls < MaxCalls
  /\ question' \in Variants(strip(lower(question))) \ {question}
  /\ pc' = "start"
  /\ UNCHANGED <<model, response, ret, cache, log, failing, file, details,
                 invocations, calls, threads>>
  /\ UNCHANGED <<session_state, sql>>

\* A thread calls classify_intent(q, model) with a tied question: steps 1
\* to 3 read the question only, then the wrapper lru_cache put around
\* _llm_classify looks the key up while it holds its lock.  On a hit it
\* moves the entry to the most recently used end and the call returns the
\* cached label; on a miss it releases the lock.
Lookup(t) ==
  /\ threads[t].pc \in {"idle", "done"}
  /\ calls < MaxCalls
  /\ \E q \in ConcurrentQuestions :
       /\ KeywordDecision(q).intent = "ambiguous"
       /\ \E i \in {CacheIndex(cache, q, SharedModel)} :
            IF i > 0
              THEN /\ cache' = Touch(cache, i)
                   /\ threads' =
                        [threads EXCEPT ![t] =
                           [pc |-> "done", question |-> q,
                            call |-> calls + 1, value |-> cache[i].value,
                            ret |-> cache[i].value]]
              ELSE /\ cache' = cache
                   /\ threads' =
                        [threads EXCEPT ![t] =
                           [pc |-> "invoke", question |-> q,
                            call |-> calls + 1, value |-> "none",
                            ret |-> "none"]]
  /\ calls' = calls + 1
  /\ UNCHANGED <<pc, question, model, response, ret, log, failing, file,
                 details, invocations>>
  /\ UNCHANGED <<session_state, sql>>

\* After a miss the wrapper calls _llm_classify without holding the lock:
\* model.invoke answers and the label is derived from the answer, or the
\* derivation raises and the exception ends the call
Invoke(t) ==
  /\ threads[t].pc = "invoke"
  /\ \E r \in ConcurrentResponses :
       \E label \in {LlmLabel(r.content)} :
         /\ invocations' =
              Append(invocations,
                     [question |-> threads[t].question,
                      model |-> SharedModel, call |-> threads[t].call,
                      response |-> r])
         /\ threads' =
              [threads EXCEPT ![t] =
                 IF label \in Labels
                   THEN [@ EXCEPT !.pc = "store", !.value = label]
                   ELSE [@ EXCEPT !.pc = "done", !.ret = label]]
  /\ UNCHANGED <<pc, question, model, response, ret, cache, log, failing,
                 file, details, calls>>
  /\ UNCHANGED <<session_state, sql>>

\* With the label in hand the wrapper takes the lock again: if the key
\* was added meanwhile it leaves the cache alone, else it stores the
\* label, evicting the least recently used entry when full; the call
\* returns the label this thread computed
StoreResult(t) ==
  /\ threads[t].pc = "store"
  /\ cache' =
       IF CacheIndex(cache, threads[t].question, SharedModel) > 0
         THEN cache
         ELSE Store(cache, threads[t].question, SharedModel,
                    threads[t].value)
  /\ threads' =
       [threads EXCEPT ![t] =
          [@ EXCEPT !.pc = "done", !.ret = threads[t].value]]
  /\ UNCHANGED <<pc, question, model, response, ret, log, failing, file,
                 details, invocations, calls>>
  /\ UNCHANGED <<session_state, sql>>

\* A run of the page script loads the vector store and the model when
\* the session has none; a load that raises leaves the session as it is
AutoLoad ==
  /\ session_state.db = None
  /\ session_state' =
       [session_state EXCEPT !.db = "chroma_db", !.model = SharedModel]
  /\ UNCHANGED <<pc, question, model, response, ret, cache, log, failing,
                 file, details, invocations, calls, threads, sql>>

\* The Clear button
Clear ==
  /\ session_state' =
       [session_state EXCEPT !.chat_history = <<>>,
                             !.display_messages = <<>>,
                             !.total_queries = 0, !.sql_queries = 0,
                             !.rag_queries = 0, !.ambig_queries = 0]
  /\ UNCHANGED <<pc, question, model, response, ret, cache, log, failing,
                 file, details, invocations, calls, threads, sql>>

\* The Send button with a non-blank input.  Without a database the page
\* shows an error and nothing changes.  Else the question is shown and
\* run_pipeline runs: get_classification_details, classify_intent, then
\* the SQL or the retrieval pipeline, which answers or raises (fails).
\* An answer is counted and shown; an exception is shown as an error.
Send ==
  /\ calls < MaxCalls
  /\ \E user_input \in ChatInputs :
       /\ strip(user_input) # <<>>
       /\ IF ~Truthy(session_state.db)
            THEN UNCHANGED vars
            ELSE \E q \in {strip(user_input)} :
                   \E d \in {KeywordDecision(q)},
                      r \in ChatResponses \cup {NoResponse},
                      fails \in BOOLEAN :
                     \E out \in {Outcome(d, q, session_state.model, r,
                                         cache)} :
                       \E clf_details \in {ClassificationDetails(q)} :
                         /\ out.invoked <=> (r # NoResponse)
                         /\ fails => out.ret \in Labels
                         /\ question' = q
                         /\ details' = clf_details
                         /\ model' = session_state.model
                         /\ response' = r
                         /\ ret' = out.ret
                         /\ cache' = out.cache
                         /\ log' = out.records
                         /\ failing' = {}
                         /\ file' = WriteAll(out.records, {}).lines
                         /\ invocations' =
                              IF out.invoked
                                THEN Append(invocations,
                                            [question |-> q,
                                             model |-> session_state.model,
                                             call |-> calls + 1,
                                             response |-> r])
                                ELSE invocations
                         /\ pc' = "done"
                         /\ calls' = calls + 1
                         /\ session_state' =
                              LET shown ==
                                    [session_state EXCEPT
                                       !.display_messages =
                                         Append(@, UserMessage)]
                              IN  IF out.ret \in Labels /\ ~fails
                                    THEN [CountAnswer(shown, out.ret,
                                                      clf_details.method)
                                            EXCEPT
                                            !.chat_history =
                                              @ \o <<"human", "ai">>,
                                            !.display_messages =
                                              Append(@,
                                                AssistantMessage(
                                                  out.ret, clf_details))]
                                    ELSE [shown EXCEPT
                                            !.display_messages =
                                              Append(@, ErrorMessage)]
                         /\ sql' = IF out.ret = "sql" THEN generate_sql(q)
                                   ELSE sql
                         /\ UNCHANGED threads

\* sql = generate_sql(user_question)
GenerateSql ==
  /\ pc = "start"
  /\ sql' = generate_sql(question)
  /\ pc' = "done"
  /\ UNCHANGED <<question, model, response, ret, cache, log, failing, file,
                 details, invocations, calls, threads, session_state>>

ClassifyOnce == classify_intent(ModelArgs, Responses, Faults)

ClassifyWithoutModel == classify_intent({None}, {}, {{}})

ClassifyInSession == classify_intent(SessionModelArgs, SessionResponses, {{}})

ClassifyWithFailures ==
  classify_intent(SessionModelArgs, RetryResponses, {{}})

Next == get_classification_details \/ ClassifyOnce

NextSession == get_classification_details \/ ClassifyInSession \/ Ask

NextScoring == get_classification_details \/ Extend

NextVariants == get_classification_details \/ ClassifyWithoutModel \/ Vary

NextRetry == get_classification_details \/ ClassifyWithFailures \/ Ask

NextSql == GenerateSql

NextChat == AutoLoad \/ Send \/ Clear

NextConcurrent ==
  \E t \in Threads : Lookup(t) \/ Invoke(t) \/ StoreResult(t)

\* One call on any question text
Spec == Init /\ [][Next]_vars

\* A process run of up to MaxCalls calls
SpecSession == InitSession /\ [][NextSession]_vars

\* The scores of a question and of its extensions
SpecScoring == InitScoring /\ [][NextScoring]_vars

\* A question and its variants in case and blanks, classified without a
\* model
SpecVariants == InitVariants /\ [][NextVariants]_vars

\* A process run in which model.invoke may raise
SpecRetry == InitSession /\ [][NextRetry]_vars

\* generate_sql on the questions made of up to MaxSqlFrags pieces
SpecSql == InitSql /\ [][NextSql]_vars

\* One browser session of the chat page
SpecChat == InitChat /\ [][NextChat]_vars

\* Sessions that escalate tied questions at the same time
SpecConcurrent == InitConcurrent /\ [][NextConcurrent]_vars

(***************************************************************************)
(* Facts about the call that has just ended                                *)
(***************************************************************************)
\* The last record of the log
LastRecord == log[Len(log)]

\* What the detector, the resolver and the scorer say of each question
\* text of the model, on the text as classify_intent normalizes it
QuestionFacts ==
  [t \in Questions \cup SessionQuestions |->
     CHOOSE facts \in {[pattern |-> _is_product_name_query(q),
                        override |-> _has_override_sql(q),
                        scores |-> _compute_scores(q)] :
                         q \in {strip(lower(t))}} : TRUE]

\* The detector fires on the question of the call and no override phrase
\* matches it: the precondition of step 1
PatternDecides == 
  QuestionFacts[question].pattern /\ ~QuestionFacts[question].override

\* The structured and the semantic score of the question of the call
SqlScore == QuestionFacts[question].scores[1]

SemScore == QuestionFacts[question].scores[2]

\* The model output has no first token that names the structured label
Unrecognized(content) ==
  \A tokens \in {split(lower(strip(content)))} :
    tokens = <<>> \/ ~IsSubstring(<<"s","q","l">>, tokens[1])

(***************************************************************************)
(* C1: for every question text, with or without a model and whatever the   *)
(* model does, classify_intent ends by returning 'sql' or 'semantic' and   *)
(* never raises.                                                           *)
(***************************************************************************)
C1_ReturnsLabelNeverRaises == pc = "done" => ret \in Labels

(***************************************************************************)
(* C2: whenever the product-name pattern detector fires on the normalized  *)
(* question and no override phrase matches, classify_intent returns        *)
(* 'semantic' with method product_name_pattern whatever the two scores     *)
(* are; the call logs that one record and evaluates no later rule (no      *)
(* warning record, no model invocation, no cache access).                  *)
(***************************************************************************)
C2_ProductPatternPriority ==
  (pc = "done" /\ PatternDecides) =>
    /\ ret = "semantic"
    /\ log = <<_log_decision(question, "semantic", "product_name_pattern",
                             0, 0)>>
    /\ invocations = <<>>
    /\ cache = <<>>

\* A product-name question whose scores alone would have said 'sql'
C2_Witness ==
  /\ pc = "done"
  /\ PatternDecides
  /\ SqlScore > 0
  /\ SemScore = 0
  /\ ret = "semantic"
  /\ LastRecord.method = "product_name_pattern"

(***************************************************************************)
(* C3: when step 1 does not short-circuit and the structured score s and   *)
(* the semantic score m differ, classify_intent returns the label of the   *)
(* strictly larger score and logs method keyword_only when the smaller     *)
(* score is 0 and confidence_winner when both are positive.                *)
(***************************************************************************)
C3_LargerScoreWins ==
  (pc = "done" /\ ~PatternDecides /\ SqlScore # SemScore) =>
    \E winner \in {IF SqlScore > SemScore THEN "sql" ELSE "semantic"},
       method \in {IF SqlScore = 0 \/ SemScore = 0
                     THEN "keyword_only" ELSE "confidence_winner"} :
      /\ ret = winner
      /\ log = <<_log_decision(question, winner, method, SqlScore, SemScore)>>

\* Both scores positive, the structured one larger
C3_Witness ==
  /\ pc = "done"
  /\ ~PatternDecides
  /\ SqlScore > SemScore
  /\ SemScore > 0
  /\ ret = "sql"
  /\ LastRecord.method = "confidence_winner"

(***************************************************************************)
(* C4 as claimed: for every question on which the override resolver fires, *)
(* a call that returns a label returns 'sql'.                              *)
(***************************************************************************)
C4_OverrideForcesSql ==
  (pc = "done" /\ ret \in Labels /\ QuestionFacts[question].override) =>
    ret = "sql"

(***************************************************************************)
(* C4 as amended: when an override phrase matches the question, the        *)
(* product-name short-circuit is suppressed even if a product-name pattern *)
(* is also detected: no record of the call has method                      *)
(* product_name_pattern, the structured score is at least 1, and the call  *)
(* returns 'sql' whenever the structured score exceeds the semantic score. *)
(***************************************************************************)
C4_OverrideSuppressesPattern ==
  (pc = "done" /\ QuestionFacts[question].override) =>
    /\ SqlScore >= 1
    /\ \A i \in 1..Len(log) : log[i].method # "product_name_pattern"
    /\ SqlScore > SemScore => ret = "sql"

\* An override phrase and a product-name pattern in one question
C4_Witness ==
  /\ pc = "done"
  /\ QuestionFacts[question].override
  /\ QuestionFacts[question].pattern
  /\ ret = "sql"
  /\ LastRecord.method = "keyword_only"

(***************************************************************************)
(* C5: when step 1 does not fire, the two scores are equal (both zero      *)
(* included) and no model is supplied, classify_intent returns 'semantic'  *)
(* with method default_fallback and the call writes exactly one warning    *)
(* record, before the decision record.                                     *)
(***************************************************************************)
C5_TieWithoutModel ==
  (pc = "done" /\ ~PatternDecides /\ SqlScore = SemScore /\ ~Truthy(model)) =>
    /\ ret = "semantic"
    /\ log = <<_log_ambiguous(question, SqlScore, SemScore),
               _log_decision(question, "semantic", "default_fallback",
                             SqlScore, SemScore)>>
    /\ invocations = <<>>

\* A tie of two positive scores, no model
C5_Witness ==
  /\ pc = "done"
  /\ model = None
  /\ ~PatternDecides
  /\ SqlScore = SemScore
  /\ SqlScore > 0
  /\ ret = "semantic"
  /\ Len(log) = 2
  /\ log[1].level = "WARNING"
  /\ log[2].method = "default_fallback"

(***************************************************************************)
(* C6: when step 1 does not fire, the two scores are equal and a model is  *)
(* supplied, a call that returns a label returns exactly the label         *)
(* _llm_classify produced for (question, model), the one derived from the  *)
(* model's output on a miss and the cached one on a hit, and its decision  *)
(* record carries that label with method llm_fallback.                     *)
(***************************************************************************)
C6_TieWithModel ==
  (/\ pc = "done"
   /\ ~PatternDecides
   /\ SqlScore = SemScore
   /\ Truthy(model)
   /\ ret \in Labels) =>
    /\ cache # <<>>
    /\ cache[Len(cache)] =
         [question |-> question, model |-> model, value |-> ret]
    /\ response.kind = "text" => ret = LlmLabel(response.content)
    /\ LastRecord = _log_decision(question, ret, "llm_fallback",
                                  SqlScore, SemScore)

\* A call served from the cache that returns the label 'sql'
C6_Witness ==
  /\ pc = "done"
  /\ Truthy(model)
  /\ response = NoResponse
  /\ ret = "sql"
  /\ LastRecord.method = "llm_fallback"

(***************************************************************************)
(* C7: if model.invoke fails during escalation, classify_intent catches    *)
(* the failure and behaves as if no model had been supplied: it returns    *)
(* 'semantic' with method default_fallback.                                *)
(***************************************************************************)
C7_InvokeFailureFallsBack ==
  (pc = "done" /\ response = Raises) =>
    /\ ret = "semantic"
    /\ LastRecord.method = "default_fallback"

(***************************************************************************)
(* C8: any unrecognized or malformed text the model returns during         *)
(* escalation, empty or whitespace-only output included, is mapped to the  *)
(* label 'semantic' and never reaches the caller as an error.              *)
(***************************************************************************)
C8_MalformedOutputIsSemantic ==
  (pc = "done" /\ response.kind = "text" /\ Unrecognized(response.content))
    => ret = "semantic"

(***************************************************************************)
(* C9: two classify_intent calls in a row with the same ambiguous question *)
(* text and the same model invoke the model at most once.                  *)
(***************************************************************************)
C9_TwoCallsOneInvocation ==
  \A i, j \in 1..Len(invocations) :
    (/\ invocations[i].question = invocations[j].question
     /\ invocations[i].model = invocations[j].model
     /\ invocations[j].call = invocations[i].call + 1) => FALSE

(***************************************************************************)
(* C10: over any sequence of calls in one run, a question text that the    *)
(* model has answered with a label for a given model object is never sent  *)
(* to that model again, however many other questions are classified in     *)
(* between.                                                                *)
(***************************************************************************)
C10_AnsweredQuestionNeverResent ==
  \A i, j \in 1..Len(invocations) :
    (/\ i < j
     /\ invocations[i].question = invocations[j].question
     /\ invocations[i].model = invocations[j].model
     /\ invocations[i].response.kind = "text"
     /\ LlmLabel(invocations[i].response.content) \in Labels) => FALSE

(***************************************************************************)
(* Facts about the calls of a run                                          *)
(***************************************************************************)
\* The model answered the invocation with a text that yields a label
Answered(inv) ==
  inv.response.kind = "text" /\ LlmLabel(inv.response.content) \in Labels

(***************************************************************************)
(* C11: the escalation cache is keyed by the case-normalized question      *)
(* text: when the model has answered an ambiguous question with a label,   *)
(* the next call, made with the same model and a question that differs     *)
(* from the first only in letter case, is a cache hit and makes no         *)
(* external call.                                                          *)
(***************************************************************************)
C11_CaseVariantsShareEntry ==
  \A i, j \in 1..Len(invocations) :
    (/\ Answered(invocations[i])
     /\ invocations[j].call = invocations[i].call + 1
     /\ invocations[j].model = invocations[i].model
     /\ invocations[j].question # invocations[i].question
     /\ lower(invocations[j].question) = lower(invocations[i].question))
      => FALSE

\* Step 1 does not fire on the question of the call and its scores are
\* equal: the call takes the ambiguous path
Tied == ~PatternDecides /\ SqlScore = SemScore

\* Positions of the records of the call that have the given level
RecordsAt(level) == {i \in 1..Len(log) : log[i].level = level}

(***************************************************************************)
(* C12: every classify_intent call that returns emits exactly one decision *)
(* record, as its last record; a call on the ambiguous path emits exactly  *)
(* one warning record as well, as its first record, so before the decision *)
(* record and before the escalation call (it is the only record of a call  *)
(* whose escalation raises); a call on any other path emits no warning     *)
(* record.                                                                 *)
(***************************************************************************)
C12_OneDecisionRecord ==
  pc = "done" =>
    /\ ret \in Labels =>
         RecordsAt("INFO") = {Len(log)} /\ Len(log) >= 1
    /\ Tied =>
         /\ RecordsAt("WARNING") = {1}
         /\ log[1] = _log_ambiguous(question, SqlScore, SemScore)
         /\ ret \notin Labels => Len(log) = 1
    /\ ~Tied => RecordsAt("WARNING") = {}

\* An ambiguous question for which the model is invoked and answers
C12_Witness ==
  /\ pc = "done"
  /\ Tied
  /\ response.kind = "text"
  /\ ret \in Labels
  /\ Len(log) = 2
  /\ log[1].level = "WARNING"
  /\ log[2].level = "INFO"

\* What the call returns or raises when every log write succeeds
RetWithoutFaults ==
  IF PatternDecides THEN "semantic"
  ELSE IF SqlScore > SemScore THEN "sql"
  ELSE IF SemScore > SqlScore THEN "semantic"
  ELSE IF Truthy(model)
    THEN _llm_classify(question, model, response, <<>>).result
  ELSE "semantic"

BoundedOccurrence(text, phrase) ==
  \E i \in 1..(Len(text) - Len(phrase) + 1) :
    /\ text[i] = phrase[1]
    /\ SubSeq(text, i, i + Len(phrase) - 1) = phrase
    /\ i = 1 \/ ~IsWordChar(text[i - 1])
    /\ i + Len(phrase) - 1 = Len(text) \/ ~IsWordChar(text[i + Len(phrase)])

\* Every phrase the classifier looks for
AllPhrases == DEFINITE_SQL \o DEFINITE_SEMANTIC \o OVERRIDE_SQL_KEYWORDS

\* For each question text of the model, normalized as classify_intent
\* normalizes it: the matcher and BoundedOccurrence agree on every phrase
\* that occurs in the text at all (on a phrase that occurs nowhere in the
\* text both are false)
MatcherFacts ==
  [t \in Questions |->
     \E q \in {strip(lower(t))} :
       \A k \in 1..Len(AllPhrases) :
         IsSubstring(AllPhrases[k], q) =>
           (_contains_keyword(q, AllPhrases[k])
              <=> BoundedOccurrence(q, AllPhrases[k]))]

IsExtension(old, new) ==
  \E k \in 1..Len(DEFINITE_SQL) :
    /\ new = old \o <<" ">> \o DEFINITE_SQL[k]
    /\ ~_contains_keyword(strip(lower(old)), DEFINITE_SQL[k])

(***************************************************************************)
(* C15: scoring monotonicity.  When a question is extended with one more   *)
(* distinct matching phrase of the structured list, the structured score   *)
(* of the extended question is not below that of the question and its      *)
(* semantic score is the same.                                             *)
(***************************************************************************)
C15_ExtensionMonotone ==
  [][(/\ pc = "start"
      /\ pc' = "classify"
      /\ details # NoDetails
      /\ IsExtension(details.question, question)) =>
       /\ details'.sql_score >= details.sql_score
       /\ details'.semantic_score = details.semantic_score]_vars

\* What a call without a model returns and logs, from the question alone
ResultWithoutModel ==
  IF PatternDecides
    THEN [ret |-> "semantic",
          records |-> <<_log_decision(question, "semantic",
                                      "product_name_pattern", 0, 0)>>]
  ELSE IF SqlScore # SemScore
    THEN \* the larger score wins
         LET winner == IF SqlScore > SemScore THEN "sql" ELSE "semantic"
             method == IF SqlScore = 0 \/ SemScore = 0
                         THEN "keyword_only" ELSE "confidence_winner"
         IN  [ret |-> winner,
              records |-> <<_log_decision(question, winner, method,
                                          SqlScore, SemScore)>>]
  ELSE [ret |-> "semantic",
        records |-> <<_log_ambiguous(question, SqlScore, SemScore),
                      _log_decision(question, "semantic",
                                    "default_fallback", SqlScore,
                                    SemScore)>>]

(***************************************************************************)
(* C16: determinism.  The label, the method and the scores in the records  *)
(* of a classify_intent call made without a model are a function of the    *)
(* question text alone: whatever calls the run made before, with whatever  *)
(* questions and whatever the cache holds, two such calls with the same    *)
(* question text give the same result.                                     *)
(***************************************************************************)
C16_SameQuestionSameResult ==
  (pc = "done" /\ model = None) =>
    /\ ret = ResultWithoutModel.ret
    /\ log = ResultWithoutModel.records

\* A call without a model on a question for which an earlier call of the
\* run cached the label 'sql'
C16_Witness ==
  /\ pc = "done"
  /\ model = None
  /\ calls >= 2
  /\ \E i \in 1..Len(cache) :
       cache[i].question = question /\ cache[i].value = "sql"
  /\ ret = "semantic"
  /\ LastRecord.method = "default_fallback"

(***************************************************************************)
(* C17: the classification result record get_classification_details        *)
(* produces for a question always carries, as its intent, one of the two   *)
(* routing labels 'sql' and 'semantic', also when the two scores are tied. *)
(***************************************************************************)
C17_DetailsCarryLabel ==
  pc \in {"classify", "done"} => details.intent \in Labels

(***************************************************************************)
(* C18: within classify_intent the model is invoked only on the ambiguous  *)
(* path.  A call invokes the model only if step 1 did not fire and the two *)
(* scores are equal, and then at most once; a call on any other path       *)
(* invokes nothing and leaves the escalation cache as it was.              *)
(***************************************************************************)
C18_EscalationOnlyWhenTied ==
  [][(pc = "classify" /\ pc' = "done") =>
       /\ invocations' # invocations =>
            /\ Tied
            /\ Len(invocations') = Len(invocations) + 1
       /\ ~Tied => invocations' = invocations /\ cache' = cache]_vars

\* A call decided by step 1, with a model, in a run whose cache holds an
\* entry
C18_Witness ==
  /\ pc = "done"
  /\ PatternDecides
  /\ Truthy(model)
  /\ cache # <<>>
  /\ response = NoResponse
  /\ LastRecord.method = "product_name_pattern"

\* The entries a cache holds
Entries(c) == {c[i] : i \in 1..Len(c)}

\* The number of the call that inserted the entry e of the cache: the last
\* call in which the model answered for the key of e
Born(e) ==
  LET inserts == {k \in 1..Len(invocations) :
                    /\ invocations[k].question = e.question
                    /\ invocations[k].model = e.model
                    /\ Answered(invocations[k])}
  IN  invocations[CHOOSE k \in inserts : \A l \in inserts : l <= k].call

\* The call that ends in this step is served from the cache
CacheHit ==
  /\ pc = "classify"
  /\ pc' = "done"
  /\ Tied
  /\ Truthy(model')
  /\ response' = NoResponse
  /\ ret' \in Labels

(***************************************************************************)
(* C19 as claimed: the escalation cache never holds more than its capacity *)
(* and an entry that is evicted is the one inserted earliest among the     *)
(* entries held, even if it was served as a cache hit after later entries  *)
(* were inserted.                                                          *)
(***************************************************************************)
C19_EvictsOldestInserted ==
  [][/\ Len(cache') <= MaxSize
     /\ \A e \in Entries(cache) \ Entries(cache') :
          \A other \in Entries(cache) : Born(e) <= Born(other)]_vars

(***************************************************************************)
(* C19 as amended: the escalation cache never holds more than its          *)
(* capacity; a cache hit makes its entry the most recently used one and    *)
(* evicts nothing; an entry is evicted only when a new entry is stored at  *)
(* capacity, and then it is the least recently used entry, so an entry     *)
(* inserted earliest but served as a hit since is kept.                    *)
(***************************************************************************)
C19_EvictsLeastRecentlyUsed ==
  [][/\ Len(cache') <= MaxSize
     /\ \A e \in Entries(cache) \ Entries(cache') :
          /\ Len(cache) = MaxSize
          /\ e = cache[1]
          /\ invocations' # invocations
     /\ CacheHit =>
          /\ Entries(cache') = Entries(cache)
          /\ cache # <<>>
          /\ cache'[Len(cache')].question = question
          /\ cache'[Len(cache')].model = model']_vars

\* The cache is full, an entry inserted later than one it still holds has
\* been evicted: the older entry was kept because a hit refreshed it
C19_Witness ==
  /\ Len(cache) = MaxSize
  /\ \E k \in 1..Len(invocations) :
       /\ Answered(invocations[k])
       /\ \A e \in Entries(cache) :
            e.question # invocations[k].question
              \/ e.model # invocations[k].model
       /\ \E e \in Entries(cache) : Born(e) < invocations[k].call

\* The first maximal run of non-blank characters of a text, <<>> if the
\* text has none
FirstToken(content) ==
  LET solid == {i \in 1..Len(content) : content[i] \notin Whitespace}
      a == CHOOSE i \in solid : \A j \in solid : i <= j
      runs == {j \in a..Len(content) : \A p \in a..j : p \in solid}
      b == CHOOSE j \in runs : \A l \in runs : l <= j
  IN  IF solid = {} THEN <<>> ELSE SubSeq(content, a, b)

(***************************************************************************)
(* C20: on a cache miss the escalation hook derives its label from the     *)
(* first whitespace-separated token of the model's output only: 'sql' if   *)
(* that token, lower-cased, contains "sql", otherwise 'semantic', whatever *)
(* the later tokens are; and the label is in the cache, under the question *)
(* and the model of the call, when the call returns.                       *)
(***************************************************************************)
C20_FirstTokenDecides ==
  (/\ pc = "done"
   /\ response.kind = "text"
   /\ FirstToken(response.content) # <<>>) =>
    /\ ret = IF IsSubstring(<<"s","q","l">>,
                            lower(FirstToken(response.content)))
               THEN "sql" ELSE "semantic"
    /\ cache = <<[question |-> question, model |-> model, value |-> ret]>>

\* The output names the structured label in its second token only
C20_Witness ==
  /\ pc = "done"
  /\ response.kind = "text"
  /\ IsSubstring(<<"s","q","l">>, response.content)
  /\ ~IsSubstring(<<"s","q","l">>, FirstToken(response.content))
  /\ ret = "semantic"
  /\ cache # <<>>

(***************************************************************************)
(* C21: every decision record carries the two scores of its question: the  *)
(* structured and the semantic score written in the record are the ones    *)
(* the scorer gives for the question, on every decision path, the          *)
(* product-name-pattern path included.                                     *)
(***************************************************************************)
C21_RecordCarriesScores ==
  (pc = "done" /\ ret \in Labels) =>
    /\ LastRecord.level = "INFO"
    /\ LastRecord.sql = SqlScore
    /\ LastRecord.sem = SemScore

\* Two texts differ at most in letter case and in leading and trailing
\* blanks
SameNormalForm(a, b) == strip(lower(a)) = strip(lower(b))

(***************************************************************************)
(* C22: matching is case-insensitive and ignores surrounding blanks.  When *)
(* a question is asked again in a text that differs from it only in letter *)
(* case or in leading and trailing whitespace, get_classification_details  *)
(* reports the same pattern flag, override flag, scores, intent and method *)
(* for it, and classify_intent, called without a model, returns the same   *)
(* label and logs the same method and scores.                              *)
(***************************************************************************)
C22_CaseAndBlanksIgnored ==
  [][/\ (/\ pc = "start"
         /\ pc' = "classify"
         /\ details # NoDetails
         /\ SameNormalForm(details.question, question)) =>
          details' = [details EXCEPT !.question = question]
     /\ (/\ pc = "classify"
         /\ pc' = "done"
         /\ log # <<>>
         /\ model = None
         /\ model' = None
         /\ SameNormalForm(LastRecord.q, question)) =>
          /\ ret' = ret
          /\ log'[Len(log')] = [LastRecord EXCEPT !.q = question]]_vars

\* A question shouted and padded with blanks, asked after another variant
\* of it, is routed to 'sql' by its keyword
C22_Witness ==
  /\ pc = "done"
  /\ calls >= 2
  /\ lower(question) # question
  /\ strip(question) # question
  /\ details.question = question
  /\ details.sql_override
  /\ details.method = "keyword_only"
  /\ ret = "sql"

(***************************************************************************)
(* C23: the product-name detector _is_product_name_query returns False for *)
(* a query that contains a strong SQL override keyword, also when the      *)
(* query contains a marketing-suffix word: the product_pattern flag of the *)
(* breakdown, which is the detector's result, is never set together with   *)
(* the sql_override flag.                                                  *)
(***************************************************************************)
C23_DetectorYieldsToOverride ==
  (pc \in {"classify", "done"} /\ details.sql_override) =>
    ~details.product_pattern

\* Every key is cached once, with a label that some model.invoke call
\* made for that key returned
CacheIntegrity ==
  \A i \in 1..Len(cache) :
    /\ \A j \in 1..Len(cache) :
         (cache[j].question = cache[i].question
            /\ cache[j].model = cache[i].model) => j = i
    /\ \E k \in 1..Len(invocations) :
         /\ invocations[k].question = cache[i].question
         /\ invocations[k].model = cache[i].model
         /\ Answered(invocations[k])
         /\ LlmLabel(invocations[k].response.content) = cache[i].value

\* No call of a thread has invoked the model twice
OneInvocationPerCall ==
  \A i, j \in 1..Len(invocations) :
    invocations[i].call = invocations[j].call => i = j

(***************************************************************************)
(* C24: under any interleaving of concurrent classify_intent calls on      *)
(* ambiguous questions, each cached key maps to exactly one label that     *)
(* some external call returned for that key, the cache never exceeds its   *)
(* capacity, every call that has ended returned a valid label, and each    *)
(* call made at most one external invocation.                              *)
(***************************************************************************)
C24_ConcurrentCallsKeepCache ==
  /\ CacheIntegrity
  /\ Len(cache) <= MaxSize
  /\ OneInvocationPerCall
  /\ \A t \in Threads : threads[t].pc = "done" => threads[t].ret \in Labels

(***************************************************************************)
(* C25: for every question whose classification is not a tie (step 1       *)
(* fires, or the two scores differ), get_classification_details reports    *)
(* the intent and the method that classify_intent returns and logs for     *)
(* that question, whatever model is passed.                                *)
(***************************************************************************)
C25_DetailsAgreeWithDecision ==
  (pc = "done" /\ ~Tied) =>
    /\ details.question = question
    /\ details.intent = ret
    /\ LastRecord.intent = upper(details.intent)
    /\ LastRecord.method = details.method

\* A question with two positive scores, the semantic one larger, and a
\* model at hand
C25_Witness ==
  /\ pc = "done"
  /\ Truthy(model)
  /\ details.method = "confidence_winner"
  /\ details.intent = "semantic"
  /\ details.sql_score > 0
  /\ ret = "semantic"
  /\ LastRecord.method = "confidence_winner"

\* The method tag of a decision record fits its scores and its label
Consistent(r) ==
  /\ r.method = "keyword_only" =>
       \/ r.sql > 0 /\ r.sem = 0 /\ r.intent = "SQL"
       \/ r.sem > 0 /\ r.sql = 0 /\ r.intent = "SEMANTIC"
  /\ r.method = "confidence_winner" =>
       /\ r.sql > 0
       /\ r.sem > 0
       /\ r.sql # r.sem
       /\ r.intent = IF r.sql > r.sem THEN "SQL" ELSE "SEMANTIC"
  /\ r.method \in {"llm_fallback", "default_fallback"} => r.sql = r.sem
  /\ r.method \in {"product_name_pattern", "default_fallback"} =>
       r.intent = "SEMANTIC"
  /\ r.method \in {"keyword_only", "confidence_winner", "llm_fallback",
                   "default_fallback", "product_name_pattern"}
  /\ r.intent \in {"SQL", "SEMANTIC"}

(***************************************************************************)
(* C26: in every decision record the method tag is consistent with the     *)
(* recorded scores and label: keyword_only means exactly one score is 0    *)
(* and the label is the side of the positive score; confidence_winner      *)
(* means both scores are positive and unequal and the label is the larger  *)
(* side; llm_fallback and default_fallback mean the scores are equal;      *)
(* product_name_pattern and default_fallback mean the label is semantic.   *)
(***************************************************************************)
C26_MethodFitsScores ==
  \A i \in 1..Len(log) : log[i].level = "INFO" => Consistent(log[i])

\* The model decided a tie of two positive scores for 'sql'
C26_Witness ==
  /\ pc = "done"
  /\ Len(log) = 2
  /\ log[2].method = "llm_fallback"
  /\ log[2].intent = "SQL"
  /\ log[2].sql = log[2].sem
  /\ log[2].sql > 0

\* The invocation raised, and no later invocation with its key before the
\* current call was answered with a label
FailedAndNotAnsweredSince(i) ==
  /\ invocations[i].response = Raises
  /\ invocations[i].call < calls
  /\ invocations[i].question = question
  /\ invocations[i].model = model
  /\ \A j \in (i + 1)..Len(invocations) :
       (/\ invocations[j].call < calls
        /\ invocations[j].question = question
        /\ invocations[j].model = model) => ~Answered(invocations[j])

FailedSend ==
  /\ Len(session_state'.display_messages) =
       Len(session_state.display_messages) + 2
  /\ session_state'.display_messages[Len(session_state'.display_messages)]
       = ErrorMessage

\* The three query counters of the session
Counters(state) ==
  <<state.total_queries, state.sql_queries, state.rag_queries>>

\* The answers shown since the last Clear that satisfy Test
Shown(Test(_)) ==
  {i \in 1..Len(session_state.display_messages) :
     /\ session_state.display_messages[i].role = "assistant"
     /\ session_state.display_messages[i].intent # ""
     /\ Test(session_state.display_messages[i])}

(***************************************************************************)
(* C28: in the chat application, after any sequence of sent questions      *)
(* (answered or failing with an error) and Clear actions, the session      *)
(* counters satisfy total_queries = sql_queries + rag_queries, and a send  *)
(* that fails with an exception changes none of the three counters.        *)
(***************************************************************************)
C28_CountersAddUp ==
  /\ [](session_state.total_queries =
          session_state.sql_queries + session_state.rag_queries)
  /\ [][FailedSend => Counters(session_state') = Counters(session_state)]_vars

\* Answers of both routes were counted, then a send failed
C28_Witness ==
  /\ session_state.sql_queries > 0
  /\ session_state.rag_queries > 0
  /\ Len(session_state.display_messages) = 6
  /\ session_state.display_messages[6] = ErrorMessage

\* For the question, get_classification_details reports a tie exactly
\* when classify_intent decided by the LLM fallback
TieShownWhenEscalated ==
  (pc = "done" /\ ret \in Labels) =>
    (details.method = "needs_llm_fallback"
       <=> LastRecord.method = "llm_fallback")

IsEscalated(message) == message.method = "needs_llm_fallback"

(***************************************************************************)
(* C29: in the chat application, after any sequence of sent questions,     *)
(* the ambig_queries counter (shown as 'LLM classified') equals the number *)
(* of answered questions since the last Clear whose routing label was      *)
(* decided by the LLM fallback (tied scores with a model available).       *)
(***************************************************************************)
C29_AmbigCountsEscalations ==
  session_state.ambig_queries = Cardinality(Shown(IsEscalated))

(***************************************************************************)
(* Facts about the generated query                                         *)
(***************************************************************************)
\* The word lists of the branches of generate_sql, in the order of the code
BranchWords ==
  <<COUNT_WORDS, AVG_RATING_WORDS, AVG_PRICE_WORDS, AVG_DISCOUNT_WORDS,
    TOTAL_STOCK_WORDS, TOTAL_SOLD_WORDS, TOTAL_REVENUE_WORDS, UNDER_WORDS,
    OVER_WORDS, MOST_EXPENSIVE_WORDS, CHEAPEST_WORDS, BEST_RATED_WORDS,
    WORST_RATED_WORDS, BEST_SELLING_WORDS, HIGHEST_DISCOUNT_WORDS,
    LIST_ALL_WORDS>>

\* The question holds one of the words as a phrase of whole words
NamesGroup(words) ==
  \E k \in 1..Len(words) : _contains_keyword(lower(question), words[k])

\* The question names the group of these words and no other group
NamesOnly(words) ==
  /\ NamesGroup(words)
  /\ \A g \in 1..Len(BranchWords) :
       BranchWords[g] # words => ~NamesGroup(BranchWords[g])

\* Every word of the average-discount branch holds the counting word
\* "count", so the counting branch takes every question of that branch
AvgDiscountShadowed ==
  /\ \A k \in 1..Len(AVG_DISCOUNT_WORDS) :
       IsSubstring(COUNT_WORDS[2], AVG_DISCOUNT_WORDS[k])
  /\ sql.select # "ROUND(AVG(discount_percent), 2) as avg_discount"

(***************************************************************************)
(* C30: generate_sql returns the query of the keyword group that the       *)
(* question names: a question containing "average discount" or "avg        *)
(* discount" yields the AVG(discount_percent) aggregate, and one           *)
(* containing "highest discount", "most discount" or "best deal" yields    *)
(* the ORDER BY discount_percent DESC ranking, rather than the COUNT(..)   *)
(* query of the earlier counting branch; every branch of generate_sql is   *)
(* reachable by some question.                                             *)
(***************************************************************************)
C30_NamedGroupDecides ==
  (pc = "done" /\ sql # NoQuery) =>
    /\ NamesOnly(AVG_DISCOUNT_WORDS) =>
         sql.select = "ROUND(AVG(discount_percent), 2) as avg_discount"
    /\ NamesOnly(HIGHEST_DISCOUNT_WORDS) =>
         /\ sql.order = "discount_percent DESC"
         /\ sql.select # "COUNT(*) as total"

====
